---- MODULE Spec2Model ----
(***************************************************************************)
(* LumiFlix backend: the login guard (per-IP rate limiter, account         *)
(* lockout, login handler) and the Pexels video pool (insertion,           *)
(* initialisation, refresh, watch selection), with errors of the provider  *)
(* and of the store.                                                       *)
(*                                                                         *)
(* Time is the wall clock in minutes: 15 * 60 * 1000 ms is written 15.     *)
(* A Date | null field is a sequence: <<>> for null, <<t>> for the date t. *)
(***************************************************************************)
EXTENDS Integers, Sequences, FiniteSets, TLC

\* ------------------------------------------------------------------ bounds
\* The clock stops at MaxTime; a rate-limit counter is not driven past MaxCount.
\* and advances TickStep minutes at a time.
MaxTime == 20
MaxCount == 12
TickStep == 5
\* The provider answers at most MaxSearches searches for one term.
MaxSearches == 2
\* At most MaxFaults calls of the store throw.
MaxFaults == 2

\* ------------------------------------------------------- program constants
\* loginRateLimit: windowMs (minutes) and max
windowMs == 15
max == 10
\* login handler: the literal 5 of `attempts >= 5` and the 15 minutes of the lock
LOCK_ATTEMPTS == 5
LOCK_MINUTES == 15

\* --------------------------------------------------------------- inputs
IPs == {"1.2.3.4", "5.6.7.8"}
LoginIPs == {"1.2.3.4"}
\* The one registered account, and the e-mail addresses a request may carry:
\* absent, malformed, registered, well-formed but unregistered.
Registered == {"ann@mail.co"}
EmailInputs == {"", "not-an-email", "ann@mail.co", "zoe@mail.co"}
PasswordInputs == {"", "Right#1pw", "Wrong#1pw"}
\* Request slots. The sequential specification uses the first one only.
Reqs == {1, 2}
SeqReqs == {1}

Null == <<>>

VARIABLES
    now,                \* Date.now()
    loginRequestsByIp,  \* the Map of the rate limiter: ip -> [count, windowStart]
    limiter,            \* outcome of the latest loginRateLimit call: [ip, verdict]
    window,             \* observer: per ip, the window the latest call fell in and its rank in it
    users,              \* the users collection: email -> document
    req,                \* per request slot: where the handler is suspended, its inputs, the document it read
    resp,               \* per request slot: the latest response written
    fails,              \* observer: per account, failed password comparisons since the last success
    probe,              \* observer: an interval of windowMs minutes and the calls passed inside it
    account             \* the other account request in flight: where it is suspended, its inputs, its response

loginVars == <<now, loginRequestsByIp, limiter, window, users, req, resp, fails, probe, account>>

VARIABLES
    pool,                   \* the pexelsvideos collection, oldest document first
    isInitializing,         \* the module's flag
    initializationPromise,  \* the module's promise: <<>> for null, <<c>> for the one call c made
    promise,                \* per call, the promise its run made: state and value
    call,                   \* per call of initializeVideoPool: where it is suspended, and its locals
    catalog,                \* the provider: per search term, an error or the page of videos it answers
    searches,               \* observer: per search term, the searches the provider answered
    lateCall,               \* observer: a call started after another one had settled
    watch                   \* per watch request: where the handler is suspended, its locals, its response

poolVars == <<pool, isInitializing, initializationPromise, promise, call, catalog,
              searches, lateCall, watch>>

VARIABLES
    add,                    \* per direct call of addVideoToPool: where it is suspended, its argument, what it returned
    refresh,                \* the call of refreshVideoPool: where it is suspended, and its locals
    faults                  \* observer: the calls of the store that have thrown

opsVars == <<add, refresh, faults>>

vars == <<loginVars, poolVars, opsVars>>

\* ------------------------------------------------------------ rate limiter
\* loginRequestsByIp.get(ip) || { count: 0, windowStart: now }
GetEntry(ip) ==
    IF ip \in DOMAIN loginRequestsByIp
    THEN loginRequestsByIp[ip]
    ELSE [count |-> 0, windowStart |-> now]

\* mutant: the window is measured against max instead of windowMs
WindowExpiredByMax(entry) == now - entry.windowStart > max

\* if (now - entry.windowStart > windowMs) { count = 0; windowStart = now }
WindowExpired(entry) == now - entry.windowStart > windowMs

\* mutant: an expired window gets a new windowStart but keeps its count
NextEntryKeepCount(ip) ==
    LET entry == GetEntry(ip)
        fresh == IF WindowExpired(entry)
                 THEN [count |-> entry.count, windowStart |-> now]
                 ELSE entry
    IN  [fresh EXCEPT !.count = @ + 1]

\* the entry after the reset test and entry.count += 1
NextEntry(ip) ==
    LET entry == GetEntry(ip)
        fresh == IF WindowExpired(entry)
                 THEN [count |-> 0, windowStart |-> now]
                 ELSE entry
    IN  [fresh EXCEPT !.count = @ + 1]

\* mutant: the 10th call is rejected already
RateVerdictOffByOne(entry) == IF entry.count >= max THEN "429" ELSE "next"

\* if (entry.count > max) 429, else next()
RateVerdict(entry) == IF entry.count > max THEN "429" ELSE "next"

\* loginRequestsByIp.set(ip, entry)
MapSet(m, k, v) == [x \in DOMAIN m \cup {k} |-> IF x = k THEN v ELSE m[x]]

\* The observer's own account of the windows, from the words of the limiter's
\* contract: a call more than windowMs after the start of the window opens a new one.
\* It keeps the rank of the latest call in its window, how many calls of the window
\* went on to the handler, and whether the window before it saw a rejected call.
ObserveCall(ip, verdict) ==
    LET through == IF verdict = "next" THEN 1 ELSE 0
    IN  IF ip \notin DOMAIN window
        THEN MapSet(window, ip, [start |-> now, rank |-> 1, passed |-> through,
                                 opened |-> "first", rejectedBefore |-> FALSE])
        ELSE IF now - window[ip].start <= windowMs
        THEN MapSet(window, ip, [window[ip] EXCEPT !.rank = @ + 1, !.passed = @ + through])
        ELSE MapSet(window, ip, [start |-> now, rank |-> 1, passed |-> through,
                                 opened |-> "reset",
                                 rejectedBefore |-> window[ip].rank > window[ip].passed])

\* The observer's probe: one interval of windowMs minutes, [start, start + windowMs),
\* of one ip, and the calls of that ip that went on to the handler inside it.
NoProbe == [ip |-> "", start |-> 0, passed |-> 0]
ObserveProbe(ip, verdict) ==
    IF probe.ip = ip /\ now - probe.start < windowMs /\ verdict = "next"
    THEN [probe EXCEPT !.passed = @ + 1]
    ELSE probe

\* ------------------------------------------------------------ login handler
\* mutant: the format of the e-mail is not tested
EmailRegexTestAny(email) == TRUE

\* emailRegex.test(email) on the sample inputs
EmailRegexTest(email) == email \in {"ann@mail.co", "zoe@mail.co"}

\* bcrypt.hash / bcrypt.compare: a digest is opaque and matches its plaintext only
BcryptHash(password) == <<"$2a$10$", password>>
\* mutant: every password matches
BcryptCompareAny(password, digest) == TRUE
BcryptCompare(password, digest) == digest = BcryptHash(password)

NewUser(email) ==
    [email |-> email, password |-> BcryptHash("Right#1pw"),
     loginAttempts |-> 0, lockUntil |-> Null,
     resetPasswordToken |-> Null, resetPasswordExpires |-> Null,
     firstname |-> "Ann", lastname |-> "Lee", age |-> 30]

NoUser ==
    [email |-> "", password |-> <<>>, loginAttempts |-> 0, lockUntil |-> Null,
     resetPasswordToken |-> Null, resetPasswordExpires |-> Null,
     firstname |-> "", lastname |-> "", age |-> 0]

\* UserDAO.findOne({ email })
FindOne(email) == IF email \in DOMAIN users THEN users[email] ELSE NoUser
Found(user) == user # NoUser

\* mutant: a lock never elapses
IsLockedForever(user) == user.lockUntil # Null

\* mutant: the lock is not tested
IsLockedNever(user) == FALSE

\* user.lockUntil && user.lockUntil > new Date()
IsLocked(user) == user.lockUntil # Null /\ user.lockUntil[1] > now

\* const attempts = (user.loginAttempts || 0) + 1
Attempts(user) == user.loginAttempts + 1

\* mutant: the lock comes one failure late
ReachesLockLate(attempts) == attempts > LOCK_ATTEMPTS

\* if (attempts >= 5)
ReachesLock(attempts) == attempts >= LOCK_ATTEMPTS

\* the patch of a failed comparison: { loginAttempts: attempts, lockUntil }
FailPatch(user) ==
    [loginAttempts |-> Attempts(user),
     lockUntil |-> IF ReachesLock(Attempts(user))
                   THEN <<now + LOCK_MINUTES>>
                   ELSE user.lockUntil]

\* mutant: the record is reset only when a lock was set
NeedsResetLockedOnly(user) == user.lockUntil # Null

\* if (user.loginAttempts || user.lockUntil) update(..., { loginAttempts: 0, lockUntil: null })
NeedsReset(user) == user.loginAttempts # 0 \/ user.lockUntil # Null
ResetPatch == [loginAttempts |-> 0, lockUntil |-> Null]

\* UserDAO.update(id, patch): findByIdAndUpdate sets the patched fields of the stored document
Update(email, patch) ==
    [users EXCEPT ![email] = [f \in DOMAIN @ |-> IF f \in DOMAIN patch THEN patch[f] ELSE @[f]]]

\* responses
NoResponse == [status |-> 0, message |-> "", token |-> FALSE, body |-> {}]
Reply(status, message) == [status |-> status, message |-> message, token |-> FALSE, body |-> {}]
TooMany == Reply(429, "Too many login attempts. Try again later.")
MissingFields == Reply(400, "Missing email or password")
BadEmail == Reply(400, "Invalid email format")
InvalidCredentials == Reply(401, "Invalid credentials")
AccountLocked == Reply(423, "Account locked. Try later")
\* res.cookie('token', signToken(id)); res.json({ user: {...} })
LoggedIn ==
    [status |-> 200, message |-> "", token |-> TRUE,
     body |-> {"id", "email", "firstName", "lastName", "age", "createdAt"}]

\* mutant: an unknown e-mail is reported as such
UnknownEmailReplyNotFound == Reply(404, "User not found")

\* if (!user) return res.status(401).json({ message: 'Invalid credentials' })
UnknownEmailReply == InvalidCredentials

FailReply(user) == IF ReachesLock(Attempts(user)) THEN AccountLocked ELSE InvalidCredentials

Idle(r) == req[r].pc = "idle"

\* loginRateLimit(req, res, next): the table, and whether next() is called
RateLimitStep(ip) ==
    LET entry == NextEntry(ip)
    IN  /\ entry.count <= MaxCount
        /\ loginRequestsByIp' = MapSet(loginRequestsByIp, ip, entry)
        /\ limiter' = [ip |-> ip, verdict |-> RateVerdict(entry)]
        /\ window' = ObserveCall(ip, RateVerdict(entry))
        /\ probe' = ObserveProbe(ip, RateVerdict(entry))

\* the middleware on its own, whatever handler follows it
LoginRateLimit(ip) ==
    /\ RateLimitStep(ip)
    /\ UNCHANGED <<now, users, req, resp, fails, account>>
    /\ UNCHANGED <<poolVars, opsVars>>

\* POST /login up to its first await: loginRateLimit, then the handler's validation
PostLogin(r, ip, email, password) ==
    LET verdict == RateVerdict(NextEntry(ip))
    IN  /\ Idle(r)
        /\ RateLimitStep(ip)
        /\ IF verdict = "429"
           THEN /\ resp' = [resp EXCEPT ![r] = TooMany]
                /\ req' = [req EXCEPT ![r] = [pc |-> "idle", email |-> email,
                                              password |-> password, user |-> NoUser]]
           ELSE IF email = "" \/ password = ""
           THEN /\ resp' = [resp EXCEPT ![r] = MissingFields]
                /\ req' = [req EXCEPT ![r] = [pc |-> "idle", email |-> email,
                                              password |-> password, user |-> NoUser]]
           ELSE IF ~EmailRegexTest(email)
           THEN /\ resp' = [resp EXCEPT ![r] = BadEmail]
                /\ req' = [req EXCEPT ![r] = [pc |-> "idle", email |-> email,
                                              password |-> password, user |-> NoUser]]
           ELSE /\ resp' = [resp EXCEPT ![r] = NoResponse]
                /\ req' = [req EXCEPT ![r] = [pc |-> "findOne", email |-> email,
                                              password |-> password, user |-> NoUser]]
        /\ UNCHANGED <<now, users, fails, account>>
        /\ UNCHANGED <<poolVars, opsVars>>

\* findOne resolves: unknown e-mail, lock test, then bcrypt.compare is awaited
FindOneDone(r) ==
    LET user == FindOne(req[r].email)
    IN  /\ req[r].pc = "findOne"
        /\ IF ~Found(user)
           THEN /\ resp' = [resp EXCEPT ![r] = UnknownEmailReply]
                /\ req' = [req EXCEPT ![r].pc = "idle"]
           ELSE IF IsLocked(user)
           THEN /\ resp' = [resp EXCEPT ![r] = AccountLocked]
                /\ req' = [req EXCEPT ![r].pc = "idle", ![r].user = user]
           ELSE /\ resp' = resp
                /\ req' = [req EXCEPT ![r].pc = "compare", ![r].user = user]
        /\ UNCHANGED <<now, loginRequestsByIp, limiter, window, probe, users, fails, account>>
        /\ UNCHANGED <<poolVars, opsVars>>

\* bcrypt.compare resolves: the failure branch or the success branch, with its update
CompareDone(r) ==
    LET user == req[r].user
        ok == BcryptCompare(req[r].password, user.password)
    IN  /\ req[r].pc = "compare"
        /\ IF ~ok
           THEN /\ users' = Update(user.email, FailPatch(user))
                /\ resp' = [resp EXCEPT ![r] = FailReply(user)]
                /\ fails' = [fails EXCEPT ![user.email] = @ + 1]
           ELSE /\ users' = IF NeedsReset(user) THEN Update(user.email, ResetPatch) ELSE users
                /\ resp' = [resp EXCEPT ![r] = LoggedIn]
                /\ fails' = [fails EXCEPT ![user.email] = 0]
        /\ req' = [req EXCEPT ![r].pc = "idle"]
        /\ UNCHANGED <<now, loginRequestsByIp, limiter, window, probe, account>>
        /\ UNCHANGED <<poolVars, opsVars>>

\* catch (error) res.status(500).json({ message: error.message })
ServerError == Reply(500, "error.message")

\* findOne throws
FindOneFails(r) ==
    /\ req[r].pc = "findOne"
    /\ faults < MaxFaults
    /\ faults' = faults + 1
    /\ resp' = [resp EXCEPT ![r] = ServerError]
    /\ req' = [req EXCEPT ![r].pc = "idle"]
    /\ UNCHANGED <<now, loginRequestsByIp, limiter, window, probe, users, fails, account>>
    /\ UNCHANGED <<poolVars, add, refresh>>

\* bcrypt.compare resolves and the update of the branch taken throws: nothing is
\* stored, no cookie is set
UpdateFails(r) ==
    LET user == req[r].user
        ok == BcryptCompare(req[r].password, user.password)
    IN  /\ req[r].pc = "compare"
        /\ ~ok \/ NeedsReset(user)
        /\ faults < MaxFaults
        /\ faults' = faults + 1
        /\ resp' = [resp EXCEPT ![r] = ServerError]
        /\ req' = [req EXCEPT ![r].pc = "idle"]
        /\ fails' = IF ok THEN fails ELSE [fails EXCEPT ![user.email] = @ + 1]
        /\ UNCHANGED <<now, loginRequestsByIp, limiter, window, probe, users, account>>
        /\ UNCHANGED <<poolVars, add, refresh>>

\* the clock
Tick ==
    /\ now + TickStep <= MaxTime
    /\ now' = now + TickStep
    /\ UNCHANGED <<loginRequestsByIp, limiter, window, probe, users, req, resp, fails, account>>
    /\ UNCHANGED <<poolVars, opsVars>>

\* ------------------------------------------------- the other account routes
\* POST /password/forgot, POST /password/reset, GET /password/verify,
\* PUT /users/me, POST /logout. One such request is in flight at a time.
RESET_MINUTES == 60
\* crypto.randomBytes(32).toString('hex')
Tokens == {"c0ffee"}
TokenInputs == {"", "c0ffee", "decade"}
\* the e-mail of a reset request as sent: absent, blank, registered in another
\* spelling, well-formed but unregistered, malformed
RawEmailInputs == {"", " ", " Ann@Mail.co", "zoe@mail.co", "not-an-email"}
NewPasswordInputs == {"", "weak", "Wrong#1pw"}
FirstnameInputs == {"", "Anna"}
AgeInputs == {12, 31}
ProfileEmailInputs == {"", "not-an-email", "ann@mail.co"}

\* typeof rawEmail === 'string' ? rawEmail.trim().toLowerCase() : ''
TrimLowerCase(rawEmail) ==
    CASE rawEmail = " " -> ""
      [] rawEmail = " Ann@Mail.co" -> "ann@mail.co"
      [] OTHER -> rawEmail

\* passwordRegexReset.test(newPassword) on the sample inputs
PasswordRegexTest(password) == password \in {"Right#1pw", "Wrong#1pw"}

\* findOne({ resetPasswordToken: token, resetPasswordExpires: { $gt: new Date() } })
FindOneByToken(token) ==
    LET hits == {e \in DOMAIN users :
                    /\ users[e].resetPasswordToken = <<token>>
                    /\ users[e].resetPasswordExpires # Null
                    /\ users[e].resetPasswordExpires[1] > now}
    IN  IF hits = {} THEN NoUser ELSE users[CHOOSE e \in hits : TRUE]

\* findOne({ email, _id: { $ne: userId } })
FindOneOther(email, userId) ==
    IF email \in DOMAIN users /\ email # userId THEN users[email] ELSE NoUser

\* { resetPasswordToken: token, resetPasswordExpires: expires }
ForgotPatch(token) ==
    [resetPasswordToken |-> <<token>>, resetPasswordExpires |-> <<now + RESET_MINUTES>>]

\* mutant: a new password also clears the lock of the account
ResetConfirmPatchUnlocks(hashed) ==
    [password |-> hashed, resetPasswordToken |-> Null, resetPasswordExpires |-> Null,
     loginAttempts |-> 0, lockUntil |-> Null]

\* { password: hashed, resetPasswordToken: null, resetPasswordExpires: null }
ResetConfirmPatch(hashed) ==
    [password |-> hashed, resetPasswordToken |-> Null, resetPasswordExpires |-> Null]

\* { firstname, lastname, age: numericAge, email }
ProfilePatch(firstname, lastname, age, email) ==
    [firstname |-> firstname, lastname |-> lastname, age |-> age, email |-> email]

NoAccount ==
    [pc |-> "idle", op |-> "", raw |-> "", email |-> "", token |-> "", newPassword |-> "",
     user |-> "", firstname |-> "", age |-> 0, resp |-> NoResponse]

\* the handler has answered: its inputs are dropped, its response is kept
Answer(op, raw, email, reply) ==
    [NoAccount EXCEPT !.op = op, !.raw = raw, !.email = email, !.resp = reply]

\* mutant: an unknown address is told apart
ForgotUnknownNotFound == Reply(404, "User not found")

EmailRequired == Reply(400, "Email required")
Accepted == Reply(202, "Si el correo existe, te enviaremos un enlace")
ForgotUnknown == Accepted
TryLater == Reply(500, "Intentalo de nuevo mas tarde")
InternalError == Reply(500, "Internal server error")

AccountFrame == UNCHANGED <<now, loginRequestsByIp, limiter, window, req, resp, fails, probe>>

\* POST /logout: clearCookie and the answer; the store is not touched
Logout ==
    /\ account.pc = "idle"
    /\ account' = Answer("logout", "", "", Reply(200, "Logged out"))
    /\ UNCHANGED users /\ AccountFrame
    /\ UNCHANGED <<poolVars, opsVars>>

\* POST /password/forgot up to its first await
PasswordForgot(rawEmail) ==
    LET email == TrimLowerCase(rawEmail)
    IN  /\ account.pc = "idle"
        /\ account' = IF email = ""
                      THEN Answer("forgot", rawEmail, email, EmailRequired)
                      ELSE IF ~EmailRegexTest(email)
                      THEN Answer("forgot", rawEmail, email, Accepted)
                      ELSE [NoAccount EXCEPT !.pc = "forgotFind", !.op = "forgot",
                                             !.raw = rawEmail, !.email = email]
        /\ UNCHANGED users /\ AccountFrame
        /\ UNCHANGED <<poolVars, opsVars>>

\* findOne resolves: no account, or the update is awaited
ForgotFindDone ==
    LET user == FindOne(account.email)
    IN  /\ account.pc = "forgotFind"
        /\ account' = IF ~Found(user)
                      THEN Answer("forgot", account.raw, account.email, ForgotUnknown)
                      ELSE [account EXCEPT !.pc = "forgotUpdate", !.user = user.email]
        /\ UNCHANGED users /\ AccountFrame
        /\ UNCHANGED <<poolVars, opsVars>>

\* the update resolves; the mail is sent in the background
ForgotUpdateDone(token) ==
    /\ account.pc = "forgotUpdate"
    /\ users' = Update(account.user, ForgotPatch(token))
    /\ account' = Answer("forgot", account.raw, account.email, Accepted)
    /\ AccountFrame
    /\ UNCHANGED <<poolVars, opsVars>>

\* POST /password/reset up to its first await
PasswordReset(token, newPassword) ==
    /\ account.pc = "idle"
    /\ account' = IF token = "" \/ newPassword = ""
                  THEN Answer("reset", "", "", Reply(400, "Token and newPassword are required"))
                  ELSE IF ~PasswordRegexTest(newPassword)
                  THEN Answer("reset", "", "",
                              Reply(400, "Password does not meet complexity requirements"))
                  ELSE [NoAccount EXCEPT !.pc = "resetFind", !.op = "reset",
                                         !.token = token, !.newPassword = newPassword]
    /\ UNCHANGED users /\ AccountFrame
    /\ UNCHANGED <<poolVars, opsVars>>

\* findOne resolves: no live token, or bcrypt.hash and then the update are awaited
ResetFindDone ==
    LET user == FindOneByToken(account.token)
    IN  /\ account.pc = "resetFind"
        /\ account' = IF ~Found(user)
                      THEN Answer("reset", "", "", Reply(400, "Invalid or expired token"))
                      ELSE [account EXCEPT !.pc = "resetUpdate", !.user = user.email]
        /\ UNCHANGED users /\ AccountFrame
        /\ UNCHANGED <<poolVars, opsVars>>

ResetUpdateDone ==
    /\ account.pc = "resetUpdate"
    /\ users' = Update(account.user, ResetConfirmPatch(BcryptHash(account.newPassword)))
    /\ account' = Answer("reset", "", account.user, Reply(200, "Contrasena actualizada"))
    /\ AccountFrame
    /\ UNCHANGED <<poolVars, opsVars>>

\* GET /password/verify up to its await
PasswordVerify(token) ==
    /\ account.pc = "idle"
    /\ account' = IF token = ""
                  THEN Answer("verify", "", "", Reply(400, "Token requerido"))
                  ELSE [NoAccount EXCEPT !.pc = "verifyFind", !.op = "verify", !.token = token]
    /\ UNCHANGED users /\ AccountFrame
    /\ UNCHANGED <<poolVars, opsVars>>

VerifyFindDone ==
    LET user == FindOneByToken(account.token)
    IN  /\ account.pc = "verifyFind"
        /\ account' = IF ~Found(user)
                      THEN Answer("verify", "", "", Reply(200, "Enlace invalido o caducado"))
                      ELSE Answer("verify", "", user.email, Reply(200, "valid"))
        /\ UNCHANGED users /\ AccountFrame
        /\ UNCHANGED <<poolVars, opsVars>>

\* PUT /users/me: authMiddleware, then the handler up to its first await
PutUsersMe(userId, firstname, age, email) ==
    /\ account.pc = "idle"
    /\ account' = IF userId = ""
                  THEN Answer("profile", "", "", Reply(401, "Unauthorized"))
                  ELSE IF firstname = "" \/ email = ""
                  THEN Answer("profile", "", "", Reply(400, "Missing required fields"))
                  ELSE IF ~EmailRegexTest(email)
                  THEN Answer("profile", "", "", Reply(400, "Invalid email format"))
                  ELSE IF age < 13
                  THEN Answer("profile", "", "",
                              Reply(400, "Age must be an integer and at least 13"))
                  ELSE [NoAccount EXCEPT !.pc = "profileFind", !.op = "profile",
                                         !.user = userId, !.email = email,
                                         !.firstname = firstname, !.age = age]
    /\ UNCHANGED users /\ AccountFrame
    /\ UNCHANGED <<poolVars, opsVars>>

ProfileFindDone ==
    LET existingUser == FindOneOther(account.email, account.user)
    IN  /\ account.pc = "profileFind"
        /\ account' = IF Found(existingUser)
                      THEN Answer("profile", "", "", Reply(409, "Email already in use"))
                      ELSE [account EXCEPT !.pc = "profileUpdate"]
        /\ UNCHANGED users /\ AccountFrame
        /\ UNCHANGED <<poolVars, opsVars>>

ProfileUpdateDone ==
    /\ account.pc = "profileUpdate"
    /\ users' = Update(account.user,
                       ProfilePatch(account.firstname, "Lee",
                                    account.age, account.email))
    /\ account' = Answer("profile", "", account.email, Reply(200, ""))
    /\ AccountFrame
    /\ UNCHANGED <<poolVars, opsVars>>

\* a call of the store throws: the catch block of the handler answers 500
AccountStoreFails ==
    /\ account.pc # "idle"
    /\ faults < MaxFaults
    /\ faults' = faults + 1
    /\ account' = Answer(account.op, account.raw, account.email,
                         IF account.op = "profile" THEN InternalError ELSE TryLater)
    /\ UNCHANGED users /\ AccountFrame
    /\ UNCHANGED <<poolVars, add, refresh>>

LoginAtRest ==
    /\ now = 0
    /\ loginRequestsByIp = <<>>
    /\ limiter = [ip |-> "", verdict |-> ""]
    /\ window = <<>>
    /\ users = [e \in Registered |-> NewUser(e)]
    /\ req = [r \in Reqs |-> [pc |-> "idle", email |-> "", password |-> "", user |-> NoUser]]
    /\ resp = [r \in Reqs |-> NoResponse]
    /\ fails = [e \in Registered |-> 0]
    /\ probe = NoProbe
    /\ account = NoAccount

\* the observer starts its probe, once
ArmProbe(ip) ==
    /\ probe = NoProbe
    /\ probe' = [ip |-> ip, start |-> now, passed |-> 0]
    /\ UNCHANGED <<now, loginRequestsByIp, limiter, window, users, req, resp, fails, account>>
    /\ UNCHANGED <<poolVars, opsVars>>


\* ------------------------------------------------------------- video pool
\* pexelsVideoPool.ts
MIN_POOL_SIZE == 100
\* GET /watch/:id
MIN_VIDEOS_NEEDED == 50
genericQueries == <<"cinematic", "movie", "film", "trailer">>

Callers == {1, 2}
MovieIds == {0, 7, 11}

\* a video of the provider, and the document addVideoToPool makes of it
Video(id) == [id |-> id, url |-> <<"pexels", id>>]
Doc(video) == [pexelsId |-> video.id, videoData |-> video]
PoolOf(ids) == [k \in 1..Len(ids) |-> Doc(Video(ids[k]))]
RangePool(n) == [k \in 1..n |-> Doc(Video(1000 + k))]

\* the provider's answer to videos.search for a term: an error, or a page of videos
Page(ids) == [ok |-> TRUE, videos |-> [k \in 1..Len(ids) |-> Video(ids[k])]]
ProviderError == [ok |-> FALSE, videos |-> <<>>]

\* mutant: the count of an empty collection, whatever is stored
CountDocumentsNone == Len(<<>>)

\* PexelsVideo.countDocuments()
CountDocuments == Len(pool)

\* PexelsVideo.findOne({ pexelsId })
HasVideo(id) == \E k \in 1..Len(pool) : pool[k].pexelsId = id

\* addVideoToPool(videoData): the pool after it. The unique index on pexelsId makes the
\* findOne / save / duplicate-key path an insert-if-absent.
AddVideoToPool(video) ==
    IF video.id = 0 \/ HasVideo(video.id) THEN pool ELSE Append(pool, Doc(video))

\* what addVideoToPool returns is truthy: the existing or the created document
Saved(video) == video.id # 0

InSeq(x, seq) == \E k \in 1..Len(seq) : seq[k] = x

\* observers in the record: log, the run's delays (0) and searches (the term's number) in
\* order; full, whether the pool held MIN_POOL_SIZE documents when the call was made;
\* held, whether the guard was held then
IdleCall == [pc |-> "idle", join |-> 0, q |-> 0, videos |-> <<>>, addedVideos |-> <<>>,
             result |-> Null, log |-> <<>>, full |-> FALSE, held |-> FALSE]
NoPromise == [state |-> "none", value |-> 0]

\* the top of `for (const query of genericQueries)` with query number q next:
\* break, the 2 second delay, or the search
LoopHead(rec, q) ==
    IF q > Len(genericQueries) \/ Len(rec.addedVideos) >= MIN_POOL_SIZE
    THEN [rec EXCEPT !.pc = "finalCount", !.q = q, !.videos = <<>>]
    ELSE IF Len(rec.addedVideos) > 0
    THEN [rec EXCEPT !.pc = "delay", !.q = q, !.videos = <<>>]
    ELSE [rec EXCEPT !.pc = "search", !.q = q, !.videos = <<>>]

\* mutant: the loop over the videos of a page has no break
VideoLoopNoBreak(rec, videos) ==
    IF videos = <<>>
    THEN LoopHead(rec, rec.q + 1)
    ELSE [rec EXCEPT !.pc = "add", !.videos = videos]

\* the top of `for (const video of response.videos)` with `videos` left
VideoLoop(rec, videos) ==
    IF videos = <<>> \/ Len(rec.addedVideos) >= MIN_POOL_SIZE
    THEN LoopHead(rec, rec.q + 1)
    ELSE [rec EXCEPT !.pc = "add", !.videos = videos]

\* mutant: an error of the provider ends the loop
CatchSearchAborts(rec) == LoopHead(rec, Len(genericQueries) + 1)

\* catch (error) { console.warn(...); continue; } around the search of one term
CatchSearch(rec) == LoopHead(rec, rec.q + 1)

\* the guard of initializeVideoPool
GuardHeld == isInitializing /\ initializationPromise # Null

\* initializeVideoPool() up to its first await, as a change of call[c]
StartCall(c) ==
    LET rec == [IdleCall EXCEPT !.full = (CountDocuments >= MIN_POOL_SIZE), !.held = GuardHeld]
    IN  IF GuardHeld
        THEN [rec EXCEPT !.pc = "joined", !.join = initializationPromise[1]]
        ELSE [rec EXCEPT !.pc = "count"]

CallReturned(c) == call[c].pc = "done"

\* the promise initializeVideoPool returned is settled
CallSettled(c) == call[c].pc \in {"done", "failed"}

\* a call of initializeVideoPool from outside the watch handler
InitializeVideoPool(c) ==
    /\ call[c].pc = "idle"
    /\ call' = [call EXCEPT ![c] = StartCall(c)]
    /\ lateCall' = (lateCall \/ \E d \in Callers : CallSettled(d))
    /\ UNCHANGED <<pool, isInitializing, initializationPromise, promise, catalog, searches, watch>>
    /\ UNCHANGED <<loginVars, opsVars>>

\* mutant: the count is not compared with MIN_POOL_SIZE, the run always starts
CountDoneAlwaysRuns(c) ==
    /\ call[c].pc = "count"
    /\ isInitializing' = TRUE
    /\ initializationPromise' = <<c>>
    /\ promise' = [promise EXCEPT ![c] = [state |-> "pending", value |-> 0]]
    /\ call' = [call EXCEPT ![c].pc = "countBefore", ![c].join = c]
    /\ UNCHANGED <<pool, catalog, searches, lateCall, watch>>
    /\ UNCHANGED <<loginVars, opsVars>>

\* the first countDocuments resolves: enough videos, or the flag is set, the promise is
\* made and the run starts, up to its own countDocuments
CountDone(c) ==
    /\ call[c].pc = "count"
    /\ IF CountDocuments >= MIN_POOL_SIZE
       THEN /\ call' = [call EXCEPT ![c].pc = "done", ![c].result = <<CountDocuments>>]
            /\ UNCHANGED <<isInitializing, initializationPromise, promise>>
       ELSE /\ isInitializing' = TRUE
            /\ initializationPromise' = <<c>>
            /\ promise' = [promise EXCEPT ![c] = [state |-> "pending", value |-> 0]]
            /\ call' = [call EXCEPT ![c].pc = "countBefore", ![c].join = c]
    /\ UNCHANGED <<pool, catalog, searches, lateCall, watch>>
    /\ UNCHANGED <<loginVars, opsVars>>

\* the run's countDocuments resolves: the double check, or the loop starts
CountBeforeDone(c) ==
    /\ call[c].pc = "countBefore"
    /\ IF CountDocuments >= MIN_POOL_SIZE
       THEN /\ isInitializing' = FALSE
            /\ initializationPromise' = Null
            /\ promise' = [promise EXCEPT ![c] = [state |-> "resolved", value |-> CountDocuments]]
            /\ call' = [call EXCEPT ![c].pc = "joined"]
       ELSE /\ call' = [call EXCEPT ![c] = LoopHead(call[c], 1)]
            /\ UNCHANGED <<isInitializing, initializationPromise, promise>>
    /\ UNCHANGED <<pool, catalog, searches, lateCall, watch>>
    /\ UNCHANGED <<loginVars, opsVars>>

\* the 2 second delay is over: the search is sent
DelayDone(c) ==
    /\ call[c].pc = "delay"
    /\ call' = [call EXCEPT ![c].pc = "search", ![c].log = Append(@, 0)]
    /\ UNCHANGED <<pool, isInitializing, initializationPromise, promise, catalog, searches,
                   lateCall, watch>>
    /\ UNCHANGED <<loginVars, opsVars>>

\* client.videos.search answers: an error is caught and the next term follows,
\* a page is walked video by video
SearchDone(c) ==
    LET answer == catalog[call[c].q]
    IN  /\ call[c].pc = "search"
        /\ searches[call[c].q] < MaxSearches
        /\ searches' = [searches EXCEPT ![call[c].q] = @ + 1]
        /\ call' = [call EXCEPT ![c] =
                       LET rec == [call[c] EXCEPT !.log = Append(@, call[c].q)]
                       IN  IF answer.ok
                           THEN VideoLoop(rec, answer.videos)
                           ELSE CatchSearch(rec)]
        /\ UNCHANGED <<pool, isInitializing, initializationPromise, promise, catalog,
                       lateCall, watch>>
        /\ UNCHANGED <<loginVars, opsVars>>

\* addVideoToPool(video) resolves: the id is recorded once, the next video follows
AddDone(c) ==
    LET video == Head(call[c].videos)
        added == IF Saved(video) /\ ~InSeq(video.id, call[c].addedVideos)
                 THEN Append(call[c].addedVideos, video.id)
                 ELSE call[c].addedVideos
    IN  /\ call[c].pc = "add"
        /\ pool' = AddVideoToPool(video)
        /\ call' = [call EXCEPT ![c] =
                       VideoLoop([call[c] EXCEPT !.addedVideos = added], Tail(call[c].videos))]
        /\ UNCHANGED <<isInitializing, initializationPromise, promise, catalog, searches,
                       lateCall, watch>>
        /\ UNCHANGED <<loginVars, opsVars>>

\* the last countDocuments resolves: finally resets the flag and the promise, and the
\* run's promise is resolved with the count
FinalCountDone(c) ==
    /\ call[c].pc = "finalCount"
    /\ isInitializing' = FALSE
    /\ initializationPromise' = Null
    /\ promise' = [promise EXCEPT ![c] = [state |-> "resolved", value |-> CountDocuments]]
    /\ call' = [call EXCEPT ![c].pc = "joined"]
    /\ UNCHANGED <<pool, catalog, searches, lateCall, watch>>
    /\ UNCHANGED <<loginVars, opsVars>>

\* the promise a call returned is resolved: the call's own await of it continues
PromiseDone(c) ==
    /\ call[c].pc = "joined"
    /\ promise[call[c].join].state = "resolved"
    /\ call' = [call EXCEPT ![c].pc = "done", ![c].result = <<promise[call[c].join].value>>]
    /\ UNCHANGED <<pool, isInitializing, initializationPromise, promise, catalog, searches,
                   lateCall, watch>>
    /\ UNCHANGED <<loginVars, opsVars>>

\* the first countDocuments throws: it is outside the try, the call's promise is rejected
CountFails(c) ==
    /\ call[c].pc = "count"
    /\ call' = [call EXCEPT ![c].pc = "failed"]
    /\ UNCHANGED <<pool, isInitializing, initializationPromise, promise, catalog, searches,
                   lateCall, watch>>
    /\ faults < MaxFaults
    /\ faults' = faults + 1
    /\ UNCHANGED <<loginVars, add, refresh>>

\* the run's countDocuments throws: the catch block counts again
CountBeforeFails(c) ==
    /\ call[c].pc = "countBefore"
    /\ call' = [call EXCEPT ![c].pc = "catchCount"]
    /\ UNCHANGED <<pool, isInitializing, initializationPromise, promise, catalog, searches,
                   lateCall, watch>>
    /\ faults < MaxFaults
    /\ faults' = faults + 1
    /\ UNCHANGED <<loginVars, add, refresh>>

\* addVideoToPool(video) catches an error of the store and resolves to null: nothing is
\* inserted, nothing is recorded, the next video follows
AddFails(c) ==
    /\ call[c].pc = "add"
    /\ call' = [call EXCEPT ![c] = VideoLoop(call[c], Tail(call[c].videos))]
    /\ UNCHANGED <<pool, isInitializing, initializationPromise, promise, catalog, searches,
                   lateCall, watch>>
    /\ faults < MaxFaults
    /\ faults' = faults + 1
    /\ UNCHANGED <<loginVars, add, refresh>>

\* addVideoToPool(video) is rejected: save was refused with E11000 and the findOne of its
\* catch threw. The catch around the search of the term takes the run to the next term.
AddRejects(c) ==
    /\ call[c].pc = "add"
    /\ HasVideo(Head(call[c].videos).id)
    /\ faults < MaxFaults
    /\ faults' = faults + 1
    /\ call' = [call EXCEPT ![c] = CatchSearch(call[c])]
    /\ UNCHANGED <<pool, isInitializing, initializationPromise, promise, catalog, searches,
                   lateCall, watch>>
    /\ UNCHANGED <<loginVars, add, refresh>>

\* the last countDocuments throws: the catch block counts again
FinalCountFails(c) ==
    /\ call[c].pc = "finalCount"
    /\ call' = [call EXCEPT ![c].pc = "catchCount"]
    /\ UNCHANGED <<pool, isInitializing, initializationPromise, promise, catalog, searches,
                   lateCall, watch>>
    /\ faults < MaxFaults
    /\ faults' = faults + 1
    /\ UNCHANGED <<loginVars, add, refresh>>

\* mutant: the rejection leaves the function without the finally block
CatchCountFailsKeepsGuard(c) ==
    /\ call[c].pc = "catchCount"
    /\ promise' = [promise EXCEPT ![c] = [state |-> "rejected", value |-> 0]]
    /\ call' = [call EXCEPT ![c].pc = "joined"]
    /\ UNCHANGED <<pool, isInitializing, initializationPromise, catalog, searches, lateCall,
                   watch>>
    /\ faults < MaxFaults
    /\ faults' = faults + 1
    /\ UNCHANGED <<loginVars, add, refresh>>

\* the countDocuments of the catch block resolves: finally resets the flag and the
\* promise, and the run's promise is resolved with the count
CatchCountDone(c) ==
    /\ call[c].pc = "catchCount"
    /\ isInitializing' = FALSE
    /\ initializationPromise' = Null
    /\ promise' = [promise EXCEPT ![c] = [state |-> "resolved", value |-> CountDocuments]]
    /\ call' = [call EXCEPT ![c].pc = "joined"]
    /\ UNCHANGED <<pool, catalog, searches, lateCall, watch>>
    /\ UNCHANGED <<loginVars, opsVars>>

\* the countDocuments of the catch block throws: finally resets the flag and the
\* promise, and the run's promise is rejected
CatchCountFails(c) ==
    /\ call[c].pc = "catchCount"
    /\ isInitializing' = FALSE
    /\ initializationPromise' = Null
    /\ promise' = [promise EXCEPT ![c] = [state |-> "rejected", value |-> 0]]
    /\ call' = [call EXCEPT ![c].pc = "joined"]
    /\ UNCHANGED <<pool, catalog, searches, lateCall, watch>>
    /\ faults < MaxFaults
    /\ faults' = faults + 1
    /\ UNCHANGED <<loginVars, add, refresh>>

\* the promise a call returned is rejected: the call's own await of it throws
PromiseFailed(c) ==
    /\ call[c].pc = "joined"
    /\ promise[call[c].join].state = "rejected"
    /\ call' = [call EXCEPT ![c].pc = "failed"]
    /\ UNCHANGED <<pool, isInitializing, initializationPromise, promise, catalog, searches,
                   lateCall, watch>>
    /\ UNCHANGED <<loginVars, opsVars>>

\* ------------------------------------------------------- addVideoToPool
\* direct calls of addVideoToPool, await by await. `via` is the await whose result the
\* call returned ("" before that and for the argument check).
NoAdd == [pc |-> "idle", video |-> Video(0), returned |-> Null, via |-> ""]

\* the provider's video `id` with a payload that differs from Video(id)
Revised(id) == [id |-> id, url |-> <<"pexels", id, "revised">>]
AddInputs == {Video(0), Video(1), Revised(1), Video(2)}

\* PexelsVideo.findOne({ pexelsId: id }): <<>> for null
FindVideo(id) ==
    IF HasVideo(id)
    THEN <<pool[CHOOSE k \in 1..Len(pool) : pool[k].pexelsId = id]>>
    ELSE <<>>

\* mutant: the collection has no unique index
DuplicateKeyNever(video) == FALSE

\* video.save() is refused with E11000 by the unique index on pexelsId
DuplicateKey(video) == HasVideo(video.id)

\* addVideoToPool(videoData) is called: a missing argument or id returns null at once,
\* otherwise findOne is awaited
AddVideoToPoolCall(c, video) ==
    /\ add[c].pc \in {"idle", "done", "failed"}
    /\ add' = [add EXCEPT ![c] =
                  IF video.id = 0
                  THEN [NoAdd EXCEPT !.pc = "done", !.video = video]
                  ELSE [NoAdd EXCEPT !.pc = "findOne", !.video = video]]
    /\ UNCHANGED <<refresh, faults>>
    /\ UNCHANGED <<loginVars, poolVars>>

\* findOne resolves: the existing document is returned, or save is awaited
AddFindDone(c) ==
    /\ add[c].pc = "findOne"
    /\ add' = [add EXCEPT ![c] =
                  IF FindVideo(add[c].video.id) # <<>>
                  THEN [@ EXCEPT !.pc = "done", !.returned = FindVideo(add[c].video.id),
                                 !.via = "findOne"]
                  ELSE [@ EXCEPT !.pc = "save"]]
    /\ UNCHANGED <<refresh, faults>>
    /\ UNCHANGED <<loginVars, poolVars>>

\* findOne or save throws an error other than E11000: the catch returns null
AddStoreFails(c) ==
    /\ add[c].pc \in {"findOne", "save"}
    /\ faults < MaxFaults
    /\ faults' = faults + 1
    /\ add' = [add EXCEPT ![c] = [@ EXCEPT !.pc = "done", !.returned = Null, !.via = "catch"]]
    /\ UNCHANGED refresh
    /\ UNCHANGED <<loginVars, poolVars>>

\* save resolves with the created document, or is refused with E11000 and the catch
\* awaits findOne
AddSaveDone(c) ==
    /\ add[c].pc = "save"
    /\ IF DuplicateKey(add[c].video)
       THEN /\ add' = [add EXCEPT ![c].pc = "refind"]
            /\ UNCHANGED pool
       ELSE /\ pool' = Append(pool, Doc(add[c].video))
            /\ add' = [add EXCEPT ![c] = [@ EXCEPT !.pc = "done",
                                                  !.returned = <<Doc(add[c].video)>>,
                                                  !.via = "save"]]
    /\ UNCHANGED <<isInitializing, initializationPromise, promise, call, catalog, searches,
                   lateCall, watch>>
    /\ UNCHANGED <<refresh, faults>>
    /\ UNCHANGED loginVars

\* the findOne of the catch resolves: its result is returned
AddRefindDone(c) ==
    /\ add[c].pc = "refind"
    /\ add' = [add EXCEPT ![c] = [@ EXCEPT !.pc = "done",
                                          !.returned = FindVideo(add[c].video.id),
                                          !.via = "refind"]]
    /\ UNCHANGED <<refresh, faults>>
    /\ UNCHANGED <<loginVars, poolVars>>

\* the findOne of the catch throws: the call is rejected
AddRefindFails(c) ==
    /\ add[c].pc = "refind"
    /\ faults < MaxFaults
    /\ faults' = faults + 1
    /\ add' = [add EXCEPT ![c] = [@ EXCEPT !.pc = "failed", !.via = "refind"]]
    /\ UNCHANGED refresh
    /\ UNCHANGED <<loginVars, poolVars>>

\* ------------------------------------------------------ refreshVideoPool
MAX_POOL_SIZE == 500
\* the 50 of `currentCount - MAX_POOL_SIZE + 50`
NEW_SLOTS == 50

\* `oldest` holds the _id of the documents still to delete, written as their pexelsId;
\* pool0 is an observer: the collection as it was when it was counted
NoRefresh == [pc |-> "idle", currentCount |-> 0, oldest |-> <<>>, beforeCount |-> 0,
              result |-> Null, pool0 |-> <<>>]

\* the call of initializeVideoPool that refreshVideoPool makes is call RefreshCaller
RefreshCaller == 1

\* mutant: the pool is cut down to MAX_POOL_SIZE
ToRemoveToMax(currentCount) == currentCount - MAX_POOL_SIZE

\* const toRemove = currentCount - MAX_POOL_SIZE + 50
ToRemove(currentCount) == currentCount - MAX_POOL_SIZE + NEW_SLOTS

Min(a, b) == IF a < b THEN a ELSE b

\* PexelsVideo.find({}).sort({ createdAt: 1 }).limit(n): the pool is kept oldest first
Oldest(n) == [k \in 1..Min(n, Len(pool)) |-> pool[k].pexelsId]

\* PexelsVideo.deleteOne({ _id }): the pool after it
DeleteOne(id) == SelectSeq(pool, LAMBDA doc : doc.pexelsId # id)

\* refreshVideoPool() is called: countDocuments is awaited
RefreshVideoPool ==
    /\ refresh.pc = "idle"
    /\ call[RefreshCaller].pc = "idle"
    /\ refresh' = [NoRefresh EXCEPT !.pc = "count"]
    /\ UNCHANGED <<add, faults>>
    /\ UNCHANGED <<loginVars, poolVars>>

\* countDocuments resolves: at MAX_POOL_SIZE or above the oldest documents are looked up
RefreshCountDone ==
    /\ refresh.pc = "count"
    /\ refresh' = [refresh EXCEPT !.currentCount = CountDocuments,
                                  !.pool0 = pool,
                                  !.pc = IF CountDocuments >= MAX_POOL_SIZE
                                         THEN "find" ELSE "beforeCount"]
    /\ UNCHANGED <<add, faults>>
    /\ UNCHANGED <<loginVars, poolVars>>

\* the sorted, limited find resolves: the documents are deleted one by one
RefreshFindDone ==
    LET oldest == Oldest(ToRemove(refresh.currentCount))
    IN  /\ refresh.pc = "find"
        /\ refresh' = [refresh EXCEPT !.oldest = oldest,
                                      !.pc = IF oldest = <<>> THEN "beforeCount" ELSE "delete"]
        /\ UNCHANGED <<add, faults>>
        /\ UNCHANGED <<loginVars, poolVars>>

\* one deleteOne resolves: the next document, or the count before the top-up
RefreshDeleteDone ==
    /\ refresh.pc = "delete"
    /\ pool' = DeleteOne(Head(refresh.oldest))
    /\ refresh' = [refresh EXCEPT !.oldest = Tail(@),
                                  !.pc = IF Tail(refresh.oldest) = <<>>
                                         THEN "beforeCount" ELSE "delete"]
    /\ UNCHANGED <<isInitializing, initializationPromise, promise, call, catalog, searches,
                   lateCall, watch>>
    /\ UNCHANGED <<add, faults>>
    /\ UNCHANGED loginVars

\* the count before the top-up resolves: initializeVideoPool is called and awaited
RefreshBeforeCountDone ==
    /\ refresh.pc = "beforeCount"
    /\ refresh' = [refresh EXCEPT !.beforeCount = CountDocuments, !.pc = "init"]
    /\ call' = [call EXCEPT ![RefreshCaller] = StartCall(RefreshCaller)]
    /\ lateCall' = (lateCall \/ \E d \in Callers : CallSettled(d))
    /\ UNCHANGED <<pool, isInitializing, initializationPromise, promise, catalog, searches,
                   watch>>
    /\ UNCHANGED <<add, faults>>
    /\ UNCHANGED loginVars

\* the awaited initializeVideoPool has returned: the count after the top-up is awaited
RefreshInitReturned ==
    /\ refresh.pc = "init"
    /\ CallReturned(RefreshCaller)
    /\ refresh' = [refresh EXCEPT !.pc = "afterCount"]
    /\ UNCHANGED <<add, faults>>
    /\ UNCHANGED <<loginVars, poolVars>>

\* the awaited initializeVideoPool has thrown: the catch returns 0
RefreshInitThrew ==
    /\ refresh.pc = "init"
    /\ call[RefreshCaller].pc = "failed"
    /\ refresh' = [refresh EXCEPT !.pc = "done", !.result = <<0>>]
    /\ UNCHANGED <<add, faults>>
    /\ UNCHANGED <<loginVars, poolVars>>

\* the count after the top-up resolves: the difference is returned
RefreshAfterCountDone ==
    /\ refresh.pc = "afterCount"
    /\ refresh' = [refresh EXCEPT !.pc = "done",
                                  !.result = <<CountDocuments - refresh.beforeCount>>]
    /\ UNCHANGED <<add, faults>>
    /\ UNCHANGED <<loginVars, poolVars>>

\* a call of the store that refreshVideoPool awaits throws: the catch returns 0
RefreshFails ==
    /\ refresh.pc \in {"count", "find", "delete", "beforeCount", "afterCount"}
    /\ faults < MaxFaults
    /\ faults' = faults + 1
    /\ refresh' = [refresh EXCEPT !.pc = "done", !.result = <<0>>]
    /\ UNCHANGED add
    /\ UNCHANGED <<loginVars, poolVars>>

\* --------------------------------------------------------- GET /watch/:id
NoWatch == [pc |-> "idle", movieId |-> 0, poolVideos |-> <<>>, status |-> 0, video |-> <<>>]

\* mutant: the index counts from 1
SelectedIndexFromOne(movieId, poolVideos) == (movieId % Len(poolVideos)) + 1

\* const selectedIndex = Number(movieId) % poolVideos.length (arrays count from 0)
SelectedIndex(movieId, poolVideos) == movieId % Len(poolVideos)

\* poolVideos[selectedIndex]?.videoData, <<>> when there is none
SelectedVideo(movieId, poolVideos) ==
    LET i == SelectedIndex(movieId, poolVideos) + 1
    IN  IF i \in 1..Len(poolVideos) THEN <<poolVideos[i].videoData>> ELSE <<>>

\* the selection and the response that ends the handler
Respond(rec, poolVideos) ==
    LET selected == SelectedVideo(rec.movieId, poolVideos)
    IN  IF selected = <<>>
        THEN [rec EXCEPT !.pc = "idle", !.poolVideos = poolVideos, !.status = 503, !.video = <<>>]
        ELSE [rec EXCEPT !.pc = "idle", !.poolVideos = poolVideos, !.status = 200,
                         !.video = selected]

\* the request arrives with a valid token: getMovieDetails is awaited.
\* The request's call of initializeVideoPool, if it makes one, is call w.
GetWatch(w, movieId) ==
    /\ watch[w].pc = "idle"
    /\ call[w].pc \in {"idle", "done", "failed"}
    /\ watch' = [watch EXCEPT ![w] = [NoWatch EXCEPT !.pc = "details", !.movieId = movieId]]
    /\ call' = [call EXCEPT ![w] = IdleCall]
    /\ UNCHANGED <<pool, isInitializing, initializationPromise, promise, catalog, searches,
                   lateCall>>
    /\ UNCHANGED <<loginVars, opsVars>>

\* getMovieDetails resolves or throws (500); getAllVideosFromPool is awaited
DetailsDone(w, ok) ==
    /\ watch[w].pc = "details"
    /\ watch' = [watch EXCEPT ![w] =
                    IF ok THEN [@ EXCEPT !.pc = "readPool"]
                    ELSE [@ EXCEPT !.pc = "idle", !.status = 500]]
    /\ UNCHANGED <<pool, isInitializing, initializationPromise, promise, call, catalog,
                   searches, lateCall>>
    /\ UNCHANGED <<loginVars, opsVars>>

\* mutant: the initialisation of a small pool is awaited like that of an empty one
ReadPoolDoneAwaits(w) ==
    /\ watch[w].pc = "readPool"
    /\ IF Len(pool) < MIN_VIDEOS_NEEDED
       THEN /\ watch' = [watch EXCEPT ![w].pc = "awaitInit"]
            /\ call' = [call EXCEPT ![w] = StartCall(w)]
            /\ lateCall' = (lateCall \/ \E d \in Callers : CallSettled(d))
       ELSE /\ watch' = [watch EXCEPT ![w] = Respond(watch[w], pool)]
            /\ UNCHANGED <<call, lateCall>>
    /\ UNCHANGED <<pool, isInitializing, initializationPromise, promise, catalog, searches>>
    /\ UNCHANGED <<loginVars, opsVars>>

\* getAllVideosFromPool resolves: an empty pool is initialised and awaited, a small one is
\* initialised in the background, and the video is selected from the documents read
ReadPoolDone(w) ==
    /\ watch[w].pc = "readPool"
    /\ IF Len(pool) = 0
       THEN /\ watch' = [watch EXCEPT ![w].pc = "awaitInit"]
            /\ call' = [call EXCEPT ![w] = StartCall(w)]
            /\ lateCall' = (lateCall \/ \E d \in Callers : CallSettled(d))
       ELSE IF Len(pool) < MIN_VIDEOS_NEEDED
       THEN /\ watch' = [watch EXCEPT ![w] = Respond(watch[w], pool)]
            /\ call' = [call EXCEPT ![w] = StartCall(w)]
            /\ lateCall' = (lateCall \/ \E d \in Callers : CallSettled(d))
       ELSE /\ watch' = [watch EXCEPT ![w] = Respond(watch[w], pool)]
            /\ UNCHANGED <<call, lateCall>>
    /\ UNCHANGED <<pool, isInitializing, initializationPromise, promise, catalog, searches>>
    /\ UNCHANGED <<loginVars, opsVars>>

\* the awaited initializeVideoPool has returned: the pool is read again
InitReturned(w) ==
    /\ watch[w].pc = "awaitInit"
    /\ CallReturned(w)
    /\ watch' = [watch EXCEPT ![w] =
                    IF Len(pool) = 0
                    THEN [@ EXCEPT !.pc = "idle", !.status = 503]
                    ELSE Respond(@, pool)]
    /\ UNCHANGED <<pool, isInitializing, initializationPromise, promise, call, catalog,
                   searches, lateCall>>
    /\ UNCHANGED <<loginVars, opsVars>>

\* getAllVideosFromPool catches an error of the store and resolves to []: the pool is
\* taken for empty, initializeVideoPool is called and awaited
ReadPoolFails(w) ==
    /\ watch[w].pc = "readPool"
    /\ watch' = [watch EXCEPT ![w].pc = "awaitInit"]
    /\ call' = [call EXCEPT ![w] = StartCall(w)]
    /\ lateCall' = (lateCall \/ \E d \in Callers : CallSettled(d))
    /\ UNCHANGED <<pool, isInitializing, initializationPromise, promise, catalog, searches>>
    /\ faults < MaxFaults
    /\ faults' = faults + 1
    /\ UNCHANGED <<loginVars, add, refresh>>

\* the awaited initializeVideoPool has returned and the second getAllVideosFromPool
\* resolves to [] on an error of the store
InitReturnedReadFails(w) ==
    /\ watch[w].pc = "awaitInit"
    /\ CallReturned(w)
    /\ watch' = [watch EXCEPT ![w] = [@ EXCEPT !.pc = "idle", !.status = 503]]
    /\ UNCHANGED <<pool, isInitializing, initializationPromise, promise, call, catalog,
                   searches, lateCall>>
    /\ faults < MaxFaults
    /\ faults' = faults + 1
    /\ UNCHANGED <<loginVars, add, refresh>>

\* the awaited initializeVideoPool has thrown: the handler's catch answers 500
InitThrew(w) ==
    /\ watch[w].pc = "awaitInit"
    /\ call[w].pc = "failed"
    /\ watch' = [watch EXCEPT ![w] = [@ EXCEPT !.pc = "idle", !.status = 500]]
    /\ UNCHANGED <<pool, isInitializing, initializationPromise, promise, call, catalog,
                   searches, lateCall>>
    /\ UNCHANGED <<loginVars, opsVars>>

\* ------------------------------------------------------------ specifications
\* what the provider may hold: short pages, pages that repeat videos, errors
Catalogs ==
    { <<Page(<<1, 2>>), Page(<<3, 4>>), Page(<<5, 6>>), Page(<<7, 8>>)>>,
      <<ProviderError, Page(<<1, 2>>), Page(<<2, 0, 3>>), Page(<<>>)>>,
      <<Page(<<1, 2>>), ProviderError, Page(<<3>>), ProviderError>>,
      <<ProviderError, ProviderError, ProviderError, ProviderError>> }

PoolAtRest ==
    /\ pool = <<>>
    /\ isInitializing = FALSE
    /\ initializationPromise = Null
    /\ promise = [c \in Callers |-> NoPromise]
    /\ call = [c \in Callers |-> IdleCall]
    /\ catalog = <<ProviderError, ProviderError, ProviderError, ProviderError>>
    /\ searches = [q \in 1..Len(genericQueries) |-> 0]
    /\ lateCall = FALSE
    /\ watch = [w \in Callers |-> NoWatch]

OpsAtRest ==
    /\ add = [c \in Callers |-> NoAdd]
    /\ refresh = NoRefresh
    /\ faults = 0

InitLogin == LoginAtRest /\ PoolAtRest /\ OpsAtRest

\* the rate limiter under calls from every IP
NextRate ==
    \/ Tick
    \/ \E ip \in IPs : LoginRateLimit(ip)

SpecRate == InitLogin /\ [][NextRate]_vars

\* the rate limiter under calls from every IP, with the probe on one interval of one of them
NextProbe ==
    \/ Tick
    \/ \E ip \in IPs : LoginRateLimit(ip)
    \/ \E ip \in LoginIPs : ArmProbe(ip)

SpecProbe == InitLogin /\ [][NextProbe]_vars

\* one login request at a time, all from one address
NextLogin ==
    \/ Tick
    \/ \E r \in SeqReqs, ip \in LoginIPs, email \in EmailInputs, password \in PasswordInputs :
          PostLogin(r, ip, email, password)
    \/ \E r \in SeqReqs : FindOneDone(r)
    \/ \E r \in SeqReqs : CompareDone(r)

SpecLogin == InitLogin /\ [][NextLogin]_vars

\* the lockout fields the login handler can have left on the account at time 0:
\* untouched, four failures, locked by a fifth failure at time 0
LockoutStates ==
    {[loginAttempts |-> 0, lockUntil |-> Null],
     [loginAttempts |-> LOCK_ATTEMPTS - 1, lockUntil |-> Null],
     [loginAttempts |-> LOCK_ATTEMPTS, lockUntil |-> <<LOCK_MINUTES>>]}

InitRoutes ==
    /\ LoginAtRest!1 /\ LoginAtRest!2 /\ LoginAtRest!3 /\ LoginAtRest!4
    /\ LoginAtRest!6 /\ LoginAtRest!7 /\ LoginAtRest!8 /\ LoginAtRest!9 /\ LoginAtRest!10
    /\ \E lockout \in LockoutStates :
          users = [e \in Registered |->
                     [NewUser(e) EXCEPT !.loginAttempts = lockout.loginAttempts,
                                        !.lockUntil = lockout.lockUntil]]
    /\ PoolAtRest /\ OpsAtRest

\* the account routes on their own, on every input, with errors of the store
NextRoutes ==
    \/ Tick
    \/ Logout
    \/ \E rawEmail \in RawEmailInputs : PasswordForgot(rawEmail)
    \/ ForgotFindDone
    \/ \E token \in Tokens : ForgotUpdateDone(token)
    \/ \E token \in TokenInputs, newPassword \in NewPasswordInputs :
          PasswordReset(token, newPassword)
    \/ ResetFindDone
    \/ ResetUpdateDone
    \/ \E token \in TokenInputs : PasswordVerify(token)
    \/ VerifyFindDone
    \/ \E userId \in Registered \cup {""}, firstname \in FirstnameInputs, age \in AgeInputs,
          email \in ProfileEmailInputs : PutUsersMe(userId, firstname, age, email)
    \/ ProfileFindDone
    \/ ProfileUpdateDone
    \/ AccountStoreFails

SpecRoutes == InitRoutes /\ [][NextRoutes]_vars

\* login requests for the registered account, two in flight at a time, all
\* within one minute
NextRace ==
    \/ \E r \in Reqs, ip \in LoginIPs, email \in Registered,
          password \in PasswordInputs \ {""} : PostLogin(r, ip, email, password)
    \/ \E r \in Reqs : FindOneDone(r)
    \/ \E r \in Reqs : CompareDone(r)

SpecRace == InitLogin /\ [][NextRace]_vars

\* request bodies: no e-mail, a malformed one, no account, the right and a wrong password
LoginBodies ==
    {[email |-> "", password |-> "Right#1pw"],
     [email |-> "not-an-email", password |-> "Right#1pw"],
     [email |-> "zoe@mail.co", password |-> "Right#1pw"],
     [email |-> "ann@mail.co", password |-> "Right#1pw"],
     [email |-> "ann@mail.co", password |-> "Wrong#1pw"]}

\* login requests with errors of the store, two in flight at a time: the first
\* slot on every input, the other slots for the registered account
NextLoginFault ==
    \/ \E r \in SeqReqs, ip \in LoginIPs, body \in LoginBodies :
          PostLogin(r, ip, body.email, body.password)
    \/ \E r \in Reqs \ SeqReqs, ip \in LoginIPs, email \in Registered,
          password \in PasswordInputs \ {""} : PostLogin(r, ip, email, password)
    \/ \E r \in Reqs : FindOneDone(r)
    \/ \E r \in Reqs : CompareDone(r)
    \/ \E r \in Reqs : FindOneFails(r)
    \/ \E r \in Reqs : UpdateFails(r)

SpecLoginFault == InitLogin /\ [][NextLoginFault]_vars

\* calls of initializeVideoPool, each started at any time
InitInit ==
    /\ LoginAtRest /\ OpsAtRest
    /\ PoolAtRest!2 /\ PoolAtRest!3 /\ PoolAtRest!4 /\ PoolAtRest!5
    /\ PoolAtRest!7 /\ PoolAtRest!8 /\ PoolAtRest!9
    /\ pool \in {<<>>, PoolOf(<<10, 20, 30>>), RangePool(MIN_POOL_SIZE - 1),
                 RangePool(MIN_POOL_SIZE)}
    /\ catalog \in Catalogs

NextInit ==
    \/ \E c \in Callers : InitializeVideoPool(c)
    \/ \E c \in Callers : CountDone(c)
    \/ \E c \in Callers : CountBeforeDone(c)
    \/ \E c \in Callers : DelayDone(c)
    \/ \E c \in Callers : SearchDone(c)
    \/ \E c \in Callers : AddDone(c)
    \/ \E c \in Callers : FinalCountDone(c)
    \/ \E c \in Callers : PromiseDone(c)

SpecInit == InitInit /\ [][NextInit]_vars

\* every step of a call of initializeVideoPool on a store that does not fail
RunStep(c) ==
    \/ CountDone(c)
    \/ CountBeforeDone(c)
    \/ DelayDone(c)
    \/ SearchDone(c)
    \/ AddDone(c)
    \/ FinalCountDone(c)
    \/ PromiseDone(c)

\* every awaited call settles: a step of a call that can be taken is taken
FairInit == SpecInit /\ \A c \in Callers : WF_vars(RunStep(c))

\* watch requests, with the initialisations they start
InitWatch ==
    /\ LoginAtRest /\ OpsAtRest
    /\ PoolAtRest!2 /\ PoolAtRest!3 /\ PoolAtRest!4 /\ PoolAtRest!5
    /\ PoolAtRest!7 /\ PoolAtRest!8 /\ PoolAtRest!9
    /\ pool \in {<<>>, PoolOf(<<10, 20, 30>>), RangePool(MIN_VIDEOS_NEEDED)}
    /\ catalog \in Catalogs

NextWatch ==
    \/ \E w \in Callers, movieId \in MovieIds : GetWatch(w, movieId)
    \/ \E w \in Callers, ok \in BOOLEAN : DetailsDone(w, ok)
    \/ \E w \in Callers : ReadPoolDone(w)
    \/ \E w \in Callers : InitReturned(w)
    \/ \E c \in Callers : CountDone(c)
    \/ \E c \in Callers : CountBeforeDone(c)
    \/ \E c \in Callers : DelayDone(c)
    \/ \E c \in Callers : SearchDone(c)
    \/ \E c \in Callers : AddDone(c)
    \/ \E c \in Callers : FinalCountDone(c)
    \/ \E c \in Callers : PromiseDone(c)

SpecWatch == InitWatch /\ [][NextWatch]_vars

\* every step of a call of initializeVideoPool, errors of the store included
CallStep(c) ==
    \/ CountDone(c)
    \/ CountFails(c)
    \/ CountBeforeDone(c)
    \/ CountBeforeFails(c)
    \/ DelayDone(c)
    \/ SearchDone(c)
    \/ AddDone(c)
    \/ AddFails(c)
    \/ AddRejects(c)
    \/ FinalCountDone(c)
    \/ FinalCountFails(c)
    \/ CatchCountDone(c)
    \/ CatchCountFails(c)
    \/ PromiseDone(c)
    \/ PromiseFailed(c)

\* calls of initializeVideoPool on a store that may fail at every call
\* what the provider may hold where the store fails as well: short pages, errors
FaultCatalogs ==
    { <<ProviderError, Page(<<1, 2>>), Page(<<2, 0>>), Page(<<>>)>>,
      <<ProviderError, ProviderError, ProviderError, ProviderError>> }

InitFault ==
    /\ LoginAtRest /\ OpsAtRest
    /\ PoolAtRest!2 /\ PoolAtRest!3 /\ PoolAtRest!4 /\ PoolAtRest!5
    /\ PoolAtRest!7 /\ PoolAtRest!8 /\ PoolAtRest!9
    /\ pool \in {<<>>, PoolOf(<<10, 20, 30>>), RangePool(MIN_POOL_SIZE)}
    /\ catalog \in FaultCatalogs

NextFault ==
    \/ \E c \in Callers : InitializeVideoPool(c)
    \/ \E c \in Callers : CountDone(c)
    \/ \E c \in Callers : CountFails(c)
    \/ \E c \in Callers : CountBeforeDone(c)
    \/ \E c \in Callers : CountBeforeFails(c)
    \/ \E c \in Callers : DelayDone(c)
    \/ \E c \in Callers : SearchDone(c)
    \/ \E c \in Callers : AddDone(c)
    \/ \E c \in Callers : AddFails(c)
    \/ \E c \in Callers : AddRejects(c)
    \/ \E c \in Callers : FinalCountDone(c)
    \/ \E c \in Callers : FinalCountFails(c)
    \/ \E c \in Callers : CatchCountDone(c)
    \/ \E c \in Callers : CatchCountFails(c)
    \/ \E c \in Callers : PromiseDone(c)
    \/ \E c \in Callers : PromiseFailed(c)

SpecFault == InitFault /\ [][NextFault]_vars

\* every awaited call settles: a step of a call that can be taken is taken
FairFault == SpecFault /\ \A c \in Callers : WF_vars(CallStep(c))

\* watch requests on a store that may fail at every call
FaultMovieIds == {7}

NextWatchFault ==
    \/ \E w \in Callers, movieId \in FaultMovieIds : GetWatch(w, movieId)
    \/ \E w \in Callers, ok \in BOOLEAN : DetailsDone(w, ok)
    \/ \E w \in Callers : ReadPoolDone(w)
    \/ \E w \in Callers : ReadPoolFails(w)
    \/ \E w \in Callers : InitReturned(w)
    \/ \E w \in Callers : InitReturnedReadFails(w)
    \/ \E w \in Callers : InitThrew(w)
    \/ \E c \in Callers : CountDone(c)
    \/ \E c \in Callers : CountFails(c)
    \/ \E c \in Callers : CountBeforeDone(c)
    \/ \E c \in Callers : CountBeforeFails(c)
    \/ \E c \in Callers : DelayDone(c)
    \/ \E c \in Callers : SearchDone(c)
    \/ \E c \in Callers : AddDone(c)
    \/ \E c \in Callers : AddFails(c)
    \/ \E c \in Callers : AddRejects(c)
    \/ \E c \in Callers : FinalCountDone(c)
    \/ \E c \in Callers : FinalCountFails(c)
    \/ \E c \in Callers : CatchCountDone(c)
    \/ \E c \in Callers : CatchCountFails(c)
    \/ \E c \in Callers : PromiseDone(c)
    \/ \E c \in Callers : PromiseFailed(c)

InitWatchFault ==
    /\ LoginAtRest /\ OpsAtRest
    /\ PoolAtRest!2 /\ PoolAtRest!3 /\ PoolAtRest!4 /\ PoolAtRest!5
    /\ PoolAtRest!7 /\ PoolAtRest!8 /\ PoolAtRest!9
    /\ pool \in {<<>>, PoolOf(<<10, 20, 30>>)}
    /\ catalog \in FaultCatalogs

SpecWatchFault == InitWatchFault /\ [][NextWatchFault]_vars

\* direct calls of addVideoToPool, interleaved, on a store that may fail
InitAdd ==
    /\ LoginAtRest /\ OpsAtRest
    /\ PoolAtRest!2 /\ PoolAtRest!3 /\ PoolAtRest!4 /\ PoolAtRest!5 /\ PoolAtRest!6
    /\ PoolAtRest!7 /\ PoolAtRest!8 /\ PoolAtRest!9
    /\ pool \in {<<>>, PoolOf(<<1>>), PoolOf(<<10, 20, 30>>)}

NextAdd ==
    \/ \E c \in Callers, video \in AddInputs : AddVideoToPoolCall(c, video)
    \/ \E c \in Callers : AddFindDone(c)
    \/ \E c \in Callers : AddStoreFails(c)
    \/ \E c \in Callers : AddSaveDone(c)
    \/ \E c \in Callers : AddRefindDone(c)
    \/ \E c \in Callers : AddRefindFails(c)

SpecAdd == InitAdd /\ [][NextAdd]_vars

\* one call of refreshVideoPool, beside direct calls of initializeVideoPool, on a store
\* that may fail
InitRefresh ==
    /\ LoginAtRest /\ OpsAtRest
    /\ PoolAtRest!2 /\ PoolAtRest!3 /\ PoolAtRest!4 /\ PoolAtRest!5
    /\ PoolAtRest!7 /\ PoolAtRest!8 /\ PoolAtRest!9
    /\ pool \in {PoolOf(<<10, 20, 30>>), RangePool(MAX_POOL_SIZE - 1),
                 RangePool(MAX_POOL_SIZE), RangePool(MAX_POOL_SIZE + 1)}
    /\ catalog \in FaultCatalogs

NextRefresh ==
    \/ RefreshVideoPool
    \/ RefreshCountDone
    \/ RefreshFindDone
    \/ RefreshDeleteDone
    \/ RefreshBeforeCountDone
    \/ RefreshInitReturned
    \/ RefreshInitThrew
    \/ RefreshAfterCountDone
    \/ RefreshFails
    \/ \E c \in Callers \ {RefreshCaller} : InitializeVideoPool(c)
    \/ \E c \in Callers : CountDone(c)
    \/ \E c \in Callers : CountFails(c)
    \/ \E c \in Callers : CountBeforeDone(c)
    \/ \E c \in Callers : CountBeforeFails(c)
    \/ \E c \in Callers : DelayDone(c)
    \/ \E c \in Callers : SearchDone(c)
    \/ \E c \in Callers : AddDone(c)
    \/ \E c \in Callers : AddFails(c)
    \/ \E c \in Callers : AddRejects(c)
    \/ \E c \in Callers : FinalCountDone(c)
    \/ \E c \in Callers : FinalCountFails(c)
    \/ \E c \in Callers : CatchCountDone(c)
    \/ \E c \in Callers : CatchCountFails(c)
    \/ \E c \in Callers : PromiseDone(c)
    \/ \E c \in Callers : PromiseFailed(c)

SpecRefresh == InitRefresh /\ [][NextRefresh]_vars

\* calls of initializeVideoPool and refreshVideoPool made one after another, each
\* after the one before it has returned, against a provider that answers full pages
PER_PAGE == 30
FullPage(q) == Page([k \in 1..PER_PAGE |-> PER_PAGE * (q - 1) + k])
SequenceCatalogs ==
    { <<FullPage(1), FullPage(2), FullPage(3), FullPage(4)>>,
      <<FullPage(1), ProviderError, FullPage(1), FullPage(3)>> }

\* no call is in progress, and the provider still answers a search of every term
Quiet ==
    /\ \A c \in Callers : call[c].pc \in {"idle", "done", "failed"}
    /\ refresh.pc \in {"idle", "done"}
    /\ \A q \in 1..Len(genericQueries) : searches[q] < MaxSearches

\* the next call is initializeVideoPool()
NextInitialize(c) ==
    /\ Quiet
    /\ call' = [call EXCEPT ![c] = StartCall(c)]
    /\ lateCall' = (lateCall \/ \E d \in Callers : CallSettled(d))
    /\ UNCHANGED <<pool, isInitializing, initializationPromise, promise, catalog, searches, watch>>
    /\ UNCHANGED <<loginVars, opsVars>>

\* the next call is refreshVideoPool()
NextRefreshCall ==
    /\ Quiet
    /\ refresh' = [NoRefresh EXCEPT !.pc = "count"]
    /\ call' = [call EXCEPT ![RefreshCaller] = IdleCall]
    /\ UNCHANGED <<pool, isInitializing, initializationPromise, promise, catalog, searches,
                   lateCall, watch>>
    /\ UNCHANGED <<add, faults>>
    /\ UNCHANGED loginVars

InitSequence ==
    /\ LoginAtRest /\ OpsAtRest
    /\ PoolAtRest!2 /\ PoolAtRest!3 /\ PoolAtRest!4 /\ PoolAtRest!5
    /\ PoolAtRest!7 /\ PoolAtRest!8 /\ PoolAtRest!9
    /\ pool \in {<<>>, RangePool(MIN_POOL_SIZE - 1), RangePool(MAX_POOL_SIZE - 1),
                 RangePool(MAX_POOL_SIZE)}
    /\ catalog \in SequenceCatalogs

NextSequence ==
    \/ \E c \in Callers \ {RefreshCaller} : NextInitialize(c)
    \/ NextRefreshCall
    \/ RefreshCountDone
    \/ RefreshFindDone
    \/ RefreshDeleteDone
    \/ RefreshBeforeCountDone
    \/ RefreshInitReturned
    \/ RefreshAfterCountDone
    \/ \E c \in Callers : CountDone(c)
    \/ \E c \in Callers : CountBeforeDone(c)
    \/ \E c \in Callers : DelayDone(c)
    \/ \E c \in Callers : SearchDone(c)
    \/ \E c \in Callers : AddDone(c)
    \/ \E c \in Callers : FinalCountDone(c)
    \/ \E c \in Callers : PromiseDone(c)

SpecSequence == InitSequence /\ [][NextSequence]_vars

\* calls of initializeVideoPool made one after another against a provider that
\* answers full pages or fails, on a store whose countDocuments may throw
InitRuns ==
    /\ LoginAtRest /\ OpsAtRest
    /\ PoolAtRest!2 /\ PoolAtRest!3 /\ PoolAtRest!4 /\ PoolAtRest!5
    /\ PoolAtRest!7 /\ PoolAtRest!8 /\ PoolAtRest!9
    /\ pool \in {<<>>, PoolOf(<<10, 20, 30>>), RangePool(MIN_POOL_SIZE - 1)}
    /\ catalog \in SequenceCatalogs

SequenceStep(c) ==
    \/ CountDone(c)
    \/ CountFails(c)
    \/ CountBeforeDone(c)
    \/ CountBeforeFails(c)
    \/ DelayDone(c)
    \/ SearchDone(c)
    \/ AddDone(c)
    \/ FinalCountDone(c)
    \/ FinalCountFails(c)
    \/ CatchCountDone(c)
    \/ CatchCountFails(c)
    \/ PromiseDone(c)
    \/ PromiseFailed(c)

NextRuns ==
    \/ \E c \in Callers : NextInitialize(c)
    \/ \E c \in Callers : SequenceStep(c)

SpecRuns == InitRuns /\ [][NextRuns]_vars

\* every awaited call settles: a step of a call that can be taken is taken
FairRuns == SpecRuns /\ \A c \in Callers : WF_vars(SequenceStep(c))



\* ------------------------------------------------------------------ claims
\* steps of a request, told by where the handler is suspended
LockTested(r) == req[r].pc = "findOne" /\ req'[r].pc # "findOne"
Compared(r) == req[r].pc = "compare" /\ req'[r].pc = "idle"
Answered(r) == req[r].pc # "idle" /\ req'[r].pc = "idle"
\* a call of loginRateLimit for ip
Called(ip) == loginRequestsByIp' # loginRequestsByIp /\ limiter'.ip = ip
WrongPassword(r) == req[r].password = "Wrong#1pw"
RightPassword(r) == req[r].password = "Right#1pw"
StoredLock(email) == users[email].lockUntil # Null /\ users[email].lockUntil[1] > now
LockElapsed(email) == users[email].lockUntil # Null /\ users[email].lockUntil[1] <= now

\* C1: the failed comparison that is the 5th in a row since the last success stores
\* lockUntil = now + 15 minutes and is answered 423 without a token; every login whose
\* lock test runs while the stored lockUntil is in the future is answered 423 without a
\* token and without a change of the record, whatever its password.
C1_FiveFailuresLock ==
    [][\A r \in Reqs :
        /\ (Compared(r) /\ fails'[req[r].email] = 5 /\ fails[req[r].email] = 4)
              => /\ users'[req[r].email].lockUntil = <<now + 15>>
                 /\ resp'[r].status = 423
                 /\ resp'[r].message = "Account locked. Try later"
                 /\ ~resp'[r].token
        /\ (LockTested(r) /\ req[r].email \in Registered /\ StoredLock(req[r].email))
              => /\ Answered(r)
                 /\ resp'[r].status = 423
                 /\ ~resp'[r].token
                 /\ users' = users
      ]_vars

\* a login with the right password was answered 423 while the lock of five failures stood
C1_Witness ==
    /\ req[1].pc = "idle" /\ req[1].email \in Registered /\ req[1].password = "Right#1pw"
    /\ resp[1].status = 423
    /\ fails[req[1].email] = 5
    /\ StoredLock(req[1].email)

\* C3: a call of loginRateLimit goes on to the handler exactly when it is among the
\* first 10 calls of its ip inside the window; the 11th and later ones are answered 429.
C3_TenPerWindow ==
    [][\A ip \in IPs :
        Called(ip) => (limiter'.verdict = "next" <=> window'[ip].rank <= 10)
      ]_vars

\* one ip is at its 11th call of a window and rejected, the other ip is still served
C3_Witness ==
    \E ip \in IPs, other \in IPs :
        /\ ip # other
        /\ limiter = [ip |-> ip, verdict |-> "429"]
        /\ ip \in DOMAIN window /\ window[ip].rank = 11 /\ window[ip].passed = 10
        /\ other \in DOMAIN window /\ window[other].passed = window[other].rank

\* C4 (as stated): every login with a wrong password that reaches the lookup gets the one
\* answer 401 'Invalid credentials', for a registered e-mail as for an unregistered one.
C4_SameAnswer ==
    [][\A r \in Reqs :
        (Answered(r) /\ WrongPassword(r))
            => (resp'[r].status = 401 /\ resp'[r].message = "Invalid credentials")
      ]_vars

\* C4 (amended): an unregistered e-mail always gets 401 'Invalid credentials'; a wrong
\* password for a registered e-mail gets the same answer when the account is not locked and
\* has fewer than 4 counted failures, and 423 'Account locked. Try later' otherwise.
C4_SameAnswerUnlessLocking ==
    [][\A r \in Reqs :
        (Answered(r) /\ WrongPassword(r))
            => IF req[r].email \notin Registered
                  \/ (~StoredLock(req[r].email) /\ users[req[r].email].loginAttempts < 4
                      /\ Compared(r))
               THEN resp'[r].status = 401 /\ resp'[r].message = "Invalid credentials"
               ELSE resp'[r].status = 423 /\ resp'[r].message = "Account locked. Try later"
      ]_vars

\* a wrong password for the registered account was answered 401 after three earlier failures
C4_Witness ==
    /\ req[1].pc = "idle" /\ req[1].email \in Registered /\ req[1].password = "Wrong#1pw"
    /\ resp[1].status = 401
    /\ users[req[1].email].loginAttempts = 4
    /\ users[req[1].email].lockUntil = Null

\* C5 (as stated): a wrong password submitted once lockUntil has elapsed is answered 401
\* and sets no new lock.
C5_UnlockRestartsCount ==
    [][\A r \in Reqs :
        (Compared(r) /\ WrongPassword(r) /\ LockElapsed(req[r].email))
            => /\ resp'[r].status = 401
               /\ users'[req[r].email].lockUntil = users[req[r].email].lockUntil
      ]_vars

\* C6: once lockUntil has elapsed the lock test lets the login through, and with the right
\* password it is answered 200 with the token and the user summary, and the stored record
\* has loginAttempts = 0 and lockUntil = null.
C6_LoginAfterLock ==
    [][\A r \in Reqs :
        /\ (LockTested(r) /\ req[r].email \in Registered /\ LockElapsed(req[r].email))
              => req'[r].pc = "compare"
        /\ (Compared(r) /\ RightPassword(r) /\ users[req[r].email].lockUntil # Null)
              => /\ resp'[r].status = 200
                 /\ resp'[r].token
                 /\ "id" \in resp'[r].body /\ "password" \notin resp'[r].body
                 /\ users'[req[r].email].loginAttempts = 0
                 /\ users'[req[r].email].lockUntil = Null
      ]_vars

\* a login that read an elapsed lock was answered 200 and the record is clean
C6_Witness ==
    /\ req[1].pc = "idle" /\ req[1].email \in Registered
    /\ req[1].user.lockUntil # Null /\ req[1].user.loginAttempts >= 5
    /\ resp[1].status = 200 /\ resp[1].token
    /\ users[req[1].email].loginAttempts = 0
    /\ users[req[1].email].lockUntil = Null

\* C7: when a login is answered 200, the stored record of its account has
\* loginAttempts = 0 and lockUntil = null.
C7_SuccessResets ==
    [][\A r \in Reqs :
        (Answered(r) /\ resp'[r].status = 200)
            => /\ users'[req[r].email].loginAttempts = 0
               /\ users'[req[r].email].lockUntil = Null
      ]_vars

\* a login that read two counted failures and no lock was answered 200 and the record is clean
C7_Witness ==
    /\ req[1].pc = "idle" /\ req[1].email \in Registered
    /\ req[1].user.loginAttempts = 2 /\ req[1].user.lockUntil = Null
    /\ resp[1].status = 200
    /\ users[req[1].email].loginAttempts = 0

\* C8 (as stated): in every interval of 15 minutes at most 10 calls of one ip go on to the
\* handler.
C8_SlidingWindow == probe.passed <= 10

\* C8 (amended): in every window of the limiter, from the call that opens it to the first
\* call more than 15 minutes later, at most 10 calls of one ip go on to the handler.
C8_FixedWindow == \A ip \in DOMAIN window : window[ip].passed <= 10

\* a window with 10 calls passed and a call rejected
C8_Witness ==
    \E ip \in DOMAIN window :
        /\ window[ip].passed = 10 /\ window[ip].rank > 10
        /\ window[ip].opened = "reset"

\* C9: a call more than 15 minutes after its ip's windowStart sets the entry to count = 1,
\* windowStart = now and goes on to the handler, and so does every call of a window opened
\* that way up to the 10th, also when the window before it saw rejected calls.
C9_ResetAfterWindow ==
    [][\A ip \in IPs :
        /\ (Called(ip) /\ ip \in DOMAIN loginRequestsByIp
              /\ now - loginRequestsByIp[ip].windowStart > 15)
              => /\ loginRequestsByIp'[ip] = [count |-> 1, windowStart |-> now]
                 /\ limiter'.verdict = "next"
        /\ (Called(ip) /\ window'[ip].opened = "reset" /\ window'[ip].rank <= 10)
              => limiter'.verdict = "next"
      ]_vars

\* the 10th call of a window that followed a window with rejected calls went through
C9_Witness ==
    \E ip \in DOMAIN window :
        /\ window[ip].opened = "reset" /\ window[ip].rejectedBefore
        /\ window[ip].rank = 10 /\ window[ip].passed = 10
        /\ limiter = [ip |-> ip, verdict |-> "next"]
        /\ loginRequestsByIp[ip].count = 10

\* C2 (as stated): when no call of initializeVideoPool started after another one had
\* returned, the provider is searched at most once for each term, the calls that set out
\* below the minimum wait for one and the same promise, and the calls that have returned
\* hold the same count.
C2_OneInitialization ==
    ~lateCall =>
        /\ \A q \in 1..Len(genericQueries) : searches[q] <= 1
        /\ \A c \in Callers, d \in Callers :
              (call[c].join # 0 /\ call[d].join # 0) => call[c].join = call[d].join
        /\ \A c \in Callers, d \in Callers :
              (CallReturned(c) /\ CallReturned(d)) => call[c].result = call[d].result

\* C10: a watch request answered 200 carries the videoData of the document at index
\* movieId mod n of the n documents it read, which are the first n of the pool as stored;
\* two requests with the same movie id that read the same documents carry the same video.
C10_SelectionByModulo ==
    /\ \A w \in Callers :
          watch[w].status = 200 =>
              LET n == Len(watch[w].poolVideos)
              IN  /\ n > 0
                  /\ SubSeq(pool, 1, n) = watch[w].poolVideos
                  /\ \E k \in 0..(n - 1), m \in 0..watch[w].movieId :
                        /\ watch[w].movieId = m * n + k
                        /\ watch[w].video = <<pool[k + 1].videoData>>
    /\ \A w \in Callers, x \in Callers :
          (/\ watch[w].status = 200 /\ watch[x].status = 200
           /\ watch[w].movieId = watch[x].movieId
           /\ watch[w].poolVideos = watch[x].poolVideos)
              => watch[w].video = watch[x].video

\* the pool [10, 20, 30] and movie id 7 gave the video 20
C10_Witness ==
    \E w \in Callers :
        /\ watch[w].status = 200 /\ watch[w].movieId = 7
        /\ watch[w].poolVideos = PoolOf(<<10, 20, 30>>)
        /\ watch[w].video = <<Video(20)>>

\* C11 (as stated): a watch request that found the pool empty and awaited
\* initializeVideoPool is answered 503 when that initialisation failed, that is when the
\* call threw or it returned and left the pool empty.
C11_UnavailableAfterFailedInit ==
    [][\A w \in Callers :
        (/\ watch[w].pc = "awaitInit" /\ watch'[w].pc = "idle"
         /\ (call[w].pc = "failed" \/ Len(pool) = 0))
            => watch'[w].status = 503
      ]_vars

\* the run of a call: from the line that sets the flag to the finally block
InRun(c) == call[c].pc \in {"countBefore", "delay", "search", "add", "finalCount", "catchCount"}

\* C12: every run that has set the guard comes to its end, errors of the provider and of
\* the store included; the step that ends it leaves isInitializing = false and
\* initializationPromise = null; and when no run is under way the guard is free, so that
\* the next call starts a run of its own.
C12_GuardReleased ==
    /\ [][\A c \in Callers :
            (InRun(c) /\ ~InRun(c)')
                => (isInitializing' = FALSE /\ initializationPromise' = Null)
         ]_vars
    /\ []((\A c \in Callers : ~InRun(c)) => ~GuardHeld)
    /\ \A c \in Callers : InRun(c) ~> ~InRun(c)

\* the run of call 1 ended with its promise rejected, after two errors of the store, and
\* the call made after that has set the guard for a run of its own
C12_Witness ==
    /\ call[1].pc = "failed" /\ promise[1].state = "rejected"
    /\ lateCall /\ InRun(2) /\ ~call[2].held
    /\ isInitializing /\ initializationPromise = <<2>>

\* C13 (as stated): a run leaves its loop over the search terms only when the pool holds
\* the target minimum or every term has been used, and no step inserts a document into a
\* pool that already holds the target minimum.
C13_FillsToTarget ==
    [][/\ \A c \in Callers :
            (InRun(c) /\ call[c].pc # "finalCount" /\ call'[c].pc = "finalCount")
                => (Len(pool') >= MIN_POOL_SIZE \/ call'[c].q > Len(genericQueries))
       /\ Len(pool) >= MIN_POOL_SIZE => pool' = pool
      ]_vars

RECURSIVE Searched(_)
Searched(log) ==
    IF log = <<>> THEN <<>>
    ELSE IF Head(log) = 0 THEN Searched(Tail(log))
    ELSE <<Head(log)>> \o Searched(Tail(log))

\* C15: the step in which the search of a term fails leaves the pool as it is and takes
\* the run to the next term (to the final count after the last one); no step removes or
\* changes a document; a run that has left its loop has searched every term, in order; and
\* a run whose search has failed goes on to return a count.
C15_SearchFailureSkipsTerm ==
    /\ [][\A c \in Callers :
            /\ (call[c].pc = "search" /\ call'[c] # call[c] /\ ~catalog[call[c].q].ok)
                  => /\ pool' = pool
                     /\ call'[c].q = call[c].q + 1
                     /\ call'[c].addedVideos = call[c].addedVideos
                     /\ IF call[c].q < Len(genericQueries)
                        THEN call'[c].pc \in {"delay", "search"}
                        ELSE call'[c].pc = "finalCount"
            /\ Len(pool') >= Len(pool) /\ SubSeq(pool', 1, Len(pool)) = pool
         ]_vars
    /\ [](\A c \in Callers :
            ((call[c].q > 0 /\ ~InRun(c)) \/ call[c].pc = "finalCount")
                => Searched(call[c].log) = <<1, 2, 3, 4>>)
    /\ \A c \in Callers :
          (call[c].pc = "search" /\ ~catalog[call[c].q].ok)
              ~> (call[c].pc = "done" /\ call[c].result # Null)

\* a run on the empty pool whose second and fourth searches failed has returned 3: the
\* videos of the first term and of the third are in the pool
C15_Witness ==
    \E c \in Callers :
        /\ ~catalog[2].ok /\ ~catalog[4].ok
        /\ call[c].pc = "done" /\ call[c].join = c /\ call[c].result = <<3>>
        /\ Searched(call[c].log) = <<1, 2, 3, 4>>
        /\ HasVideo(1) /\ HasVideo(2) /\ HasVideo(3)

\* C16 (as stated): in the log of every run, each search but the first comes right after
\* a delay.
C16_DelayBetweenSearches ==
    \A c \in Callers :
        \A k \in 2..Len(call[c].log) :
            call[c].log[k] # 0 => call[c].log[k - 1] = 0

\* a step of call c of initializeVideoPool
StepOf(c) == call'[c] # call[c] /\ call[c].pc # "idle"

\* C17 (as stated): a call made while the pool holds the target minimum waits for no run:
\* its one step after the call is its return, with the number of documents in the pool,
\* without a search, without an insert, and with the guard free.
C17_FullPoolReturnsAtOnce ==
    /\ [](\A c \in Callers : call[c].full => call[c].pc \in {"count", "done"})
    /\ [][\A c \in Callers :
            (call[c].full /\ StepOf(c))
                => /\ call'[c].pc = "done" /\ call'[c].result = <<Len(pool)>>
                   /\ pool' = pool /\ searches' = searches
                   /\ ~GuardHeld'
         ]_vars

\* C17 (amended): a call made while the pool holds the target minimum makes one step
\* after the call, its return, and that step searches nothing, inserts nothing and leaves
\* the flag and the promise as they are. Made while no run holds the guard, it returns the
\* number of documents in the pool and the guard is free; made while a run holds the
\* guard, it waits for that run and returns the run's count.
C17_FullPoolNoRun ==
    /\ [](\A c \in Callers :
            call[c].full
                => call[c].pc \in (IF call[c].held THEN {"joined", "done"} ELSE {"count", "done"}))
    /\ [][\A c \in Callers :
            (call[c].full /\ StepOf(c))
                => /\ call'[c].pc = "done"
                   /\ pool' = pool /\ searches' = searches
                   /\ isInitializing' = isInitializing
                   /\ initializationPromise' = initializationPromise
                   /\ IF call[c].held
                      THEN /\ promise[call[c].join].state = "resolved"
                           /\ call'[c].result = <<promise[call[c].join].value>>
                      ELSE /\ call'[c].result = <<Len(pool)>>
                           /\ ~GuardHeld'
         ]_vars

\* a run brought the pool from 99 documents over the target; the call made after it, with
\* the guard free, has returned the number of documents in the pool
C17_Witness ==
    \E c \in Callers :
        /\ call[c].full /\ ~call[c].held /\ call[c].pc = "done"
        /\ lateCall /\ Len(pool) > MIN_POOL_SIZE
        /\ call[c].result = <<Len(pool)>>
        /\ ~GuardHeld

\* C18: the step in which a watch request reads a pool of 1 to 49 documents calls
\* initializeVideoPool and, without waiting for it, answers 200 with the video at index
\* movieId mod n of the n documents read; after that no step of the initialisation, its
\* failure included, changes the response: only the next request in the slot does.
C18_BackgroundInit ==
    [][\A w \in Callers :
        /\ (/\ watch[w].pc = "readPool" /\ watch'[w] # watch[w] /\ faults' = faults
            /\ Len(pool) > 0 /\ Len(pool) < MIN_VIDEOS_NEEDED)
              => /\ watch'[w].pc = "idle" /\ watch'[w].status = 200
                 /\ watch'[w].poolVideos = pool
                 /\ watch'[w].video =
                        <<pool[(watch[w].movieId % Len(pool)) + 1].videoData>>
                 /\ call'[w].pc \in {"count", "joined"}
        /\ (watch[w].pc = "idle" /\ watch'[w] # watch[w])
              => watch'[w] = [NoWatch EXCEPT !.pc = "details", !.movieId = watch'[w].movieId]
      ]_vars

\* a request that read three documents was answered 200 with the second one, and the
\* initialisation it started has failed since
C18_Witness ==
    \E w \in Callers :
        /\ watch[w].pc = "idle" /\ watch[w].status = 200
        /\ watch[w].poolVideos = PoolOf(<<10, 20, 30>>) /\ watch[w].movieId = 7
        /\ watch[w].video = <<Video(20)>>
        /\ call[w].pc = "failed"

\* C19: when refreshVideoPool has counted c >= 500 documents, each of its deletes removes
\* the oldest document of the pool, and when it comes to the count before the top-up it
\* has deleted the c - 450 oldest ones: the pool holds the 450 newest, in their order.
C19_EvictsOldest ==
    /\ []((refresh.pc \in {"beforeCount", "init", "afterCount"}
            /\ refresh.currentCount >= MAX_POOL_SIZE)
             => /\ Len(pool) = 450
                /\ Len(refresh.pool0) - Len(pool) = refresh.currentCount - 450
                /\ pool = SubSeq(refresh.pool0, refresh.currentCount - 450 + 1,
                                 refresh.currentCount))
    /\ [][(refresh.pc = "delete" /\ pool' # pool) => pool' = Tail(pool)]_vars

\* a refresh of 501 documents has returned 0: the 51 oldest are gone, the pool holds the
\* 450 newest, and the call of initializeVideoPool returned 450
C19_Witness ==
    /\ refresh.pc = "done" /\ refresh.currentCount = 501 /\ refresh.result = <<0>>
    /\ faults = 0
    /\ Len(pool) = 450 /\ pool = SubSeq(RangePool(501), 52, 501)
    /\ call[RefreshCaller].pc = "done" /\ call[RefreshCaller].result = <<450>>

\* the login request that arrives in this step in slot r, and passes the rate limiter
Posted(r) ==
    /\ Idle(r) /\ loginRequestsByIp' # loginRequestsByIp
    /\ limiter'.verdict = "next"

\* C20: a login request that reaches the handler without an e-mail, without a password or
\* with a malformed e-mail is answered 400 in the step in which it arrives: no lookup is
\* awaited, no account is read, no account changes; and no request with such inputs is
\* ever waiting for the lookup or the comparison.
C20_ValidationFirst ==
    /\ [][\A r \in SeqReqs :
            (Posted(r) /\ (req'[r].email = "" \/ req'[r].password = ""
                           \/ ~(req'[r].email \in {"ann@mail.co", "zoe@mail.co"})))
                => /\ resp'[r].status = 400 /\ ~resp'[r].token
                   /\ resp'[r].message = (IF req'[r].email = "" \/ req'[r].password = ""
                                          THEN "Missing email or password"
                                          ELSE "Invalid email format")
                   /\ req'[r].pc = "idle" /\ req'[r].user = NoUser
                   /\ users' = users
         ]_vars
    /\ [](\A r \in Reqs :
            req[r].pc # "idle"
                => /\ req[r].email \in {"ann@mail.co", "zoe@mail.co"}
                   /\ req[r].password # "")

\* a request with a malformed e-mail was answered 400 while the registered account had
\* three counted failures, which it still has
C20_Witness ==
    /\ req[1].pc = "idle" /\ req[1].email = "not-an-email" /\ req[1].password = "Wrong#1pw"
    /\ resp[1] = BadEmail
    /\ users["ann@mail.co"].loginAttempts = 3 /\ fails["ann@mail.co"] = 3

\* ---------------------------------------------------------------------- C21
\* C21: the password-reset request, the password-reset confirmation, the token
\* verification, the profile update and the logout leave loginAttempts and
\* lockUntil of every account as they were, so an account that is locked stays
\* locked as long as the clock has not reached its lockUntil.
C21_RoutesKeepLockout ==
    [][\A e \in DOMAIN users :
          /\ users'[e].loginAttempts = users[e].loginAttempts
          /\ users'[e].lockUntil = users[e].lockUntil
          /\ (IsLocked(users[e]) /\ now' < users[e].lockUntil[1])
                => (users'[e].lockUntil # Null /\ users'[e].lockUntil[1] > now')]_vars

\* a locked account whose password was reset and whose profile was updated, with
\* its token verified after that, is still locked
C21_Witness ==
    \E e \in DOMAIN users :
        /\ IsLocked(users[e]) /\ now > 0
        /\ users[e].password = BcryptHash("Wrong#1pw")
        /\ users[e].firstname = "Anna"
        /\ users[e].resetPasswordToken # Null
        /\ account.pc = "idle" /\ account.op = "logout"

\* ---------------------------------------------------------------------- C22
\* C22 (as stated): two watch requests that read the same non-empty pool and
\* carry different movie ids are never answered with the same pool entry.
C22_DifferentMoviesDifferentVideos ==
    \A v, w \in Callers :
        (/\ watch[v].pc = "idle" /\ watch[v].status = 200
         /\ watch[w].pc = "idle" /\ watch[w].status = 200
         /\ watch[v].poolVideos = watch[w].poolVideos
         /\ watch[v].poolVideos # <<>>
         /\ watch[v].movieId # watch[w].movieId)
            => watch[v].video # watch[w].video

C24_StoredLockKept ==
    [][\A e \in DOMAIN users :
          IsLocked(users[e])
             => /\ users'[e].lockUntil # Null
                /\ users'[e].lockUntil[1] >= users[e].lockUntil[1]
                /\ \A r \in Reqs :
                      (LockTested(r) /\ req[r].email = e) => resp'[r] = AccountLocked]_vars

\* ---------------------------------------------------------------------- C25
\* C25 (as stated): with login requests for one account in flight together, every
\* failed comparison raises the stored loginAttempts by exactly one, and an
\* account without a stored lock has seen fewer than 5 failed comparisons since
\* its last successful login.
C25_NoIncrementLost ==
    [][\A r \in Reqs :
          (Compared(r) /\ WrongPassword(r))
             => LET e == req[r].email
                IN  /\ users'[e].loginAttempts = users[e].loginAttempts + 1
                    /\ (users'[e].lockUntil = Null => fails'[e] < LOCK_ATTEMPTS)]_vars

\* ---------------------------------------------------------------------- C26
\* C26: a response sets the token cookie only when it is the 200 of a request
\* whose password matches the hash of the account it read and the stored one,
\* and whose copy of the account was not locked; a response with status 400,
\* 401, 423, 429 or 500 sets no cookie; no response body carries the password.
C26_TokenOnlyOnMatch ==
    /\ [][\A r \in Reqs :
             (resp'[r] # resp[r] /\ resp'[r].token)
                => /\ Compared(r)
                   /\ resp'[r].status = 200
                   /\ req[r].user.password = BcryptHash(req[r].password)
                   /\ users[req[r].email].password = BcryptHash(req[r].password)
                   /\ ~IsLocked(req[r].user)]_vars
    /\ [](\A r \in Reqs :
             /\ resp[r].status \in {400, 401, 423, 429, 500} => ~resp[r].token
             /\ resp[r].token => resp[r].status = 200
             /\ "password" \notin resp[r].body)

\* one request was answered 200 with the cookie after its update of the record,
\* the other 500 without one
C26_Witness ==
    \E r, q \in Reqs :
        /\ resp[r].status = 200 /\ resp[r].token /\ req[r].pc = "idle"
        /\ req[r].user.loginAttempts > 0
        /\ resp[q].status = 500 /\ ~resp[q].token /\ req[q].pc = "idle"

\* ---------------------------------------------------------------------- C27
\* C27: with one login request at a time, a request whose lock test finds a
\* stored lockUntil in the future is answered 423 and stores nothing; as long as
\* the lock has not elapsed no step changes loginAttempts or lockUntil, and
\* lockUntil only ever changes in a comparison step, to 15 minutes after that
\* step or to null. So the lock ends 15 minutes after the failure that set it.
C27_LockedRejectionStoresNothing ==
    [][/\ \A r \in SeqReqs :
             (LockTested(r) /\ req[r].email \in DOMAIN users /\ StoredLock(req[r].email))
                => /\ resp'[r] = AccountLocked
                   /\ users' = users
                   /\ fails' = fails
       /\ \A e \in DOMAIN users :
             /\ StoredLock(e)
                   => /\ users'[e].lockUntil = users[e].lockUntil
                      /\ users'[e].loginAttempts = users[e].loginAttempts
             /\ users'[e].lockUntil # users[e].lockUntil
                   => /\ \E r \in SeqReqs : Compared(r) /\ req[r].email = e
                      /\ users'[e].lockUntil \in {Null, <<now + LOCK_MINUTES>>}]_vars

\* a request was rejected by the lock test some minutes into a lock that still
\* ends 15 minutes after the fifth failure
C27_Witness ==
    \E r \in SeqReqs :
        /\ req[r].pc = "idle" /\ resp[r] = AccountLocked
        /\ req[r].user.lockUntil = <<LOCK_MINUTES>>
        /\ now > 0 /\ now < LOCK_MINUTES
        /\ users[req[r].email].lockUntil = <<LOCK_MINUTES>>
        /\ users[req[r].email].loginAttempts = LOCK_ATTEMPTS

\* ---------------------------------------------------------------------- C28
\* C28: with calls of initializeVideoPool and refreshVideoPool made one after
\* another on a pool of at most MAX_POOL_SIZE documents, the pool never holds
\* more than MAX_POOL_SIZE documents; it grows only below twice MIN_POOL_SIZE.
C28_SequentialPoolBounded ==
    /\ [](Len(pool) <= MAX_POOL_SIZE)
    /\ [][Len(pool') > Len(pool) => Len(pool') < 2 * MIN_POOL_SIZE]_vars

\* a run that started from 99 documents has stored 100 more, and a refresh after
\* it has returned
C28_Witness ==
    /\ Len(pool) = 2 * MIN_POOL_SIZE - 1
    /\ refresh.pc = "done"
    /\ \E c \in Callers \ {RefreshCaller} : call[c].pc = "done" /\ Len(call[c].addedVideos) = MIN_POOL_SIZE

\* ---------------------------------------------------------------------- C29
\* C29 (as stated): between the steps of any calls of initializeVideoPool,
\* isInitializing is true exactly when initializationPromise is not null, and
\* isInitializing is true whenever a run is in its loop over the search terms
\* (waiting for the delay, for a search or for an insertion).
C29_GuardHeldWhileRunning ==
    /\ isInitializing <=> initializationPromise # Null
    /\ (\E c \in Callers : call[c].pc \in {"delay", "search", "add"}) => isInitializing

\* ---------------------------------------------------------------------- C30
\* C30: every call of initializeVideoPool settles, errors of the provider and of
\* countDocuments included; a run sends at most one search per term, in the order
\* of the terms, so at most 4 searches, each answered by a page of at most 30
\* videos; and it records at most MIN_POOL_SIZE video ids.
C30_RunBounded ==
    /\ [](\A c \in Callers :
             LET sent == Searched(call[c].log)
             IN  /\ Len(sent) <= Len(genericQueries)
                 /\ \A i, j \in 1..Len(sent) : i < j => sent[i] < sent[j]
                 /\ Len(call[c].videos) <= PER_PAGE
                 /\ Len(call[c].addedVideos) <= MIN_POOL_SIZE)
    /\ \A c \in Callers :
          (call[c].pc \notin {"idle", "done", "failed"}) ~> (call[c].pc \in {"done", "failed"})

\* a run on the empty pool has searched the four terms, has stopped in the page
\* of the fourth at 100 recorded ids, and its call has returned 100
C30_Witness ==
    \E c \in Callers :
        /\ call[c].pc = "done" /\ call[c].join = c
        /\ Searched(call[c].log) = <<1, 2, 3, 4>>
        /\ Len(call[c].addedVideos) = MIN_POOL_SIZE
        /\ call[c].result = <<MIN_POOL_SIZE>>

====
